---- MODULE Spec2Model ----
(***************************************************************************)
(* A model of the autonomous agent ("sequential thinking") chain runner of *)
(* obsidian-copilot: the XML tool-call codec, the think-block streamer,    *)
(* the tool execution guard and the agent loop with its fallback.          *)
(*                                                                         *)
(* Text is a sequence of tokens (strings).  The whitespace tokens are the  *)
(* single characters " " and "\n"; every other token is an atom that holds *)
(* no whitespace at its ends, so that the regular expressions of the       *)
(* source act on token sequences as they act on the characters.  The two   *)
(* tokens "<use_" and "tool>" are the halves of the opening tag: where     *)
(* they come to stand side by side the characters read "<use_tool>".       *)
(***************************************************************************)
EXTENDS Integers, Sequences, FiniteSets, TLC

\* ------------------------------------------------------------------ text

IsSpace(tok) == tok \in {" ", "\n"}

RECURSIVE Join(_, _)
\* Array.prototype.join: the parts separated by sep.
Join(parts, sep) ==
  IF Len(parts) = 0 THEN <<>>
  ELSE IF Len(parts) = 1 THEN parts[1]
  ELSE parts[1] \o sep \o Join(Tail(parts), sep)

RECURSIVE Flatten(_)
\* String concatenation of a list of texts.
Flatten(parts) ==
  IF Len(parts) = 0 THEN <<>> ELSE parts[1] \o Flatten(Tail(parts))

RECURSIVE TrimLeft(_)
TrimLeft(text) ==
  IF Len(text) > 0 /\ IsSpace(text[1]) THEN TrimLeft(Tail(text)) ELSE text

RECURSIVE TrimRight(_)
TrimRight(text) ==
  IF Len(text) > 0 /\ IsSpace(text[Len(text)])
  THEN TrimRight(SubSeq(text, 1, Len(text) - 1))
  ELSE text

\* String.prototype.trim
Trim(text) == TrimRight(TrimLeft(text))

RECURSIVE IndexFrom(_, _, _)
\* The least index j >= i with text[j] = tok, or 0.
IndexFrom(text, tok, i) ==
  IF i > Len(text) THEN 0
  ELSE IF text[i] = tok THEN i
  ELSE IndexFrom(text, tok, i + 1)

Contains(text, tok) == \E i \in 1..Len(text) : text[i] = tok

\* The blank line that separates joined segments ("\n\n").
BlankLine == <<"\n", "\n">>

\* The value JavaScript calls undefined, where a string is expected.
UndefinedValue == <<"<undefined>">>

\* Template interpolation ${x} of a value that should be a string.
Interpolate(x) == IF x = UndefinedValue THEN <<"undefined">> ELSE x

\* The element of a set of one element.  The steps of a computation are
\* written as such sets where each step works on the finished value of
\* the step before it.
TheOne(S) == CHOOSE v \in S : TRUE

\* ------------------------------------------------------ tool-call codec

RECURSIVE Lex(_)
\* The text as a regular expression reads it: the characters of "<use_"
\* followed at once by those of "tool>" are the opening tag.
Lex(text) ==
  IF Len(text) < 2 THEN text
  ELSE IF text[1] = "<use_" /\ text[2] = "tool>"
  THEN <<"<use_tool>">> \o Lex(SubSeq(text, 3, Len(text)))
  ELSE <<text[1]>> \o Lex(Tail(text))

\* UseToolSpans, were the expression greedy: one match, from the first
\* opening tag to the last closing tag.
UseToolSpans_Greedy(text, from) ==
  LET o == IndexFrom(text, "<use_tool>", from)
      c == IF o = 0 THEN 0
           ELSE CHOOSE j \in 0..Len(text) :
                  /\ j = 0 \/ (j > o /\ text[j] = "</use_tool>")
                  /\ \A k \in (j + 1)..Len(text) :
                       k > o => text[k] # "</use_tool>"
  IN  IF o = 0 \/ c = 0 THEN <<>> ELSE <<[open |-> o, close |-> c]>>

RECURSIVE UseToolSpans(_, _)
\* The matches of /<use_tool>([\s\S]*?)<\/use_tool>/g from index from:
\* leftmost first, each ending at the nearest closing tag, not overlapping.
UseToolSpans(text, from) ==
  LET o == IndexFrom(text, "<use_tool>", from)
      c == IF o = 0 THEN 0 ELSE IndexFrom(text, "</use_tool>", o + 1)
  IN  IF o = 0 \/ c = 0 THEN <<>>
      ELSE <<[open |-> o, close |-> c]>> \o UseToolSpans(text, c + 1)

\* content.match(/<tag>([\s\S]*?)<\/tag>/): the first group, or no match.
FieldMatch(content, openTag, closeTag) ==
  LET o == IndexFrom(content, openTag, 1)
      c == IF o = 0 THEN 0 ELSE IndexFrom(content, closeTag, o + 1)
  IN  IF o = 0 \/ c = 0 THEN [found |-> FALSE, group |-> <<>>]
      ELSE [found |-> TRUE, group |-> SubSeq(content, o + 1, c - 1)]

\* The JSON texts of the alphabet and the type JSON.parse gives them; any
\* other non-empty trimmed text of the alphabet is a SyntaxError.
JsonType(text) ==
  IF Len(text) # 1 THEN "invalid"
  ELSE CASE text[1] = "{}" -> "emptyObject"
         [] text[1] = "{q}" -> "object"
         [] text[1] = "[1]" -> "array"
         [] text[1] = "null" -> "null"
         [] text[1] = "true" -> "scalar"
         [] OTHER -> "invalid"

\* ParseArgs, were arguments that do not parse left as the empty object.
ParseArgs_IgnoresInvalid(argsMatch) ==
  LET argsText == Trim(argsMatch.group)
  IN  IF ~argsMatch.found \/ argsText = <<>>
           \/ JsonType(argsText) = "invalid"
      THEN [type |-> "emptyObject", text |-> <<>>]
      ELSE [type |-> JsonType(argsText), text |-> argsText]

\* let args = {}; if (argsMatch) { try { ... JSON.parse ... } catch { raw } }
ParseArgs(argsMatch) ==
  LET argsText == Trim(argsMatch.group)
  IN  IF ~argsMatch.found \/ argsText = <<>>
      THEN [type |-> "emptyObject", text |-> <<>>]
      ELSE IF JsonType(argsText) = "invalid"
      THEN [type |-> "raw", text |-> argsText]
      ELSE [type |-> JsonType(argsText), text |-> argsText]

RECURSIVE ParseSpans_StopsAtEmptyName(_, _)
\* ParseSpans, were an occurrence without a name to end the decoding.
ParseSpans_StopsAtEmptyName(text, spans) ==
  IF Len(spans) = 0 THEN <<>>
  ELSE
    LET content == SubSeq(text, spans[1].open + 1, spans[1].close - 1)
        nameMatch == FieldMatch(content, "<name>", "</name>")
        argsMatch == FieldMatch(content, "<args>", "</args>")
        name == Trim(nameMatch.group)
    IN  IF nameMatch.found /\ name # <<>>
        THEN <<[name |-> name, args |-> ParseArgs(argsMatch)]>>
               \o ParseSpans_StopsAtEmptyName(text, Tail(spans))
        ELSE <<>>

RECURSIVE ParseSpans(_, _)
ParseSpans(text, spans) ==
  IF Len(spans) = 0 THEN <<>>
  ELSE
    LET content == SubSeq(text, spans[1].open + 1, spans[1].close - 1)
        nameMatch == FieldMatch(content, "<name>", "</name>")
        argsMatch == FieldMatch(content, "<args>", "</args>")
        name == Trim(nameMatch.group)
        rest == ParseSpans(text, Tail(spans))
    IN  IF nameMatch.found /\ name # <<>>
        THEN <<[name |-> name, args |-> ParseArgs(argsMatch)]>> \o rest
        ELSE rest

parseXMLToolCalls(text) ==
  TheOne({TheOne({ParseSpans(read, spans) :
                    spans \in {UseToolSpans(read, 1)}}) :
            read \in {Lex(text)}})

RECURSIVE RemoveSpans_KeepsClosingTag(_, _, _)
\* RemoveSpans, were the closing tag of an occurrence left in the text.
RemoveSpans_KeepsClosingTag(text, spans, i) ==
  IF Len(spans) = 0 THEN SubSeq(text, i, Len(text))
  ELSE SubSeq(text, i, spans[1].open - 1)
         \o RemoveSpans_KeepsClosingTag(text, Tail(spans), spans[1].close)

RECURSIVE RemoveSpans(_, _, _)
\* text.replace(/<use_tool>[\s\S]*?<\/use_tool>/g, ""), from index i on.
RemoveSpans(text, spans, i) ==
  IF Len(spans) = 0 THEN SubSeq(text, i, Len(text))
  ELSE SubSeq(text, i, spans[1].open - 1)
         \o RemoveSpans(text, Tail(spans), spans[1].close + 1)

\* The token that stands for a code fence (three backquotes).
Fence == "<fence>"

\* The atoms made of word characters only (the class \w).
IsWord(tok) ==
  tok \in {"a", "b", "c", "js", "tool_code", "null", "true",
           "localSearch", "webSearch", "doesNotExist"}

RECURSIVE SkipWhile(_, _, _)
\* The first index >= i whose token is not in the class (Len + 1 at the end).
SkipWhile(text, i, isWord) ==
  IF i > Len(text) THEN i
  ELSE IF (IF isWord THEN IsWord(text[i]) ELSE IsSpace(text[i]))
  THEN SkipWhile(text, i + 1, isWord)
  ELSE i

\* Where a match of /FENCE\w*\s*FENCE/ that starts at i ends, or 0.
EmptyFenceEnd(text, i) ==
  IF text[i] # Fence THEN 0
  ELSE LET w == SkipWhile(text, i + 1, TRUE)
           s == SkipWhile(text, w, FALSE)
       IN  IF s <= Len(text) /\ text[s] = Fence THEN s ELSE 0

\* Where a match of /FENCEtool_code[\s\S]*?FENCE/ that starts at i ends, or 0.
ToolCodeFenceEnd(text, i) ==
  IF text[i] # Fence \/ i + 1 > Len(text) \/ text[i + 1] # "tool_code" THEN 0
  ELSE IndexFrom(text, Fence, i + 2)

RECURSIVE RemoveFences(_, _, _)
\* text.replace(re, "") for one of the two fence expressions, from i on.
RemoveFences(text, i, toolCode) ==
  IF i > Len(text) THEN <<>>
  ELSE LET e == IF toolCode THEN ToolCodeFenceEnd(text, i)
                ELSE EmptyFenceEnd(text, i)
       IN  IF e # 0 THEN RemoveFences(text, e + 1, toolCode)
           ELSE <<text[i]>> \o RemoveFences(text, i + 1, toolCode)

RECURSIVE LastNewline(_, _, _)
\* The index of the last "\n" of the whitespace run that starts at i.
LastNewline(text, i, last) ==
  IF i > Len(text) \/ ~IsSpace(text[i]) THEN last
  ELSE LastNewline(text, i + 1, IF text[i] = "\n" THEN i ELSE last)

RECURSIVE NewlinesIn(_, _, _)
NewlinesIn(text, i, j) ==
  IF i > j THEN 0
  ELSE (IF text[i] = "\n" THEN 1 ELSE 0) + NewlinesIn(text, i + 1, j)

RECURSIVE CollapseBlankLines(_, _)
\* text.replace(/\n\s*\n\s*\n/g, "\n\n"): in a run of whitespace that holds
\* three newlines or more, the part from its first to its last newline
\* becomes "\n\n".
CollapseBlankLines(text, i) ==
  IF i > Len(text) THEN <<>>
  ELSE IF text[i] # "\n" THEN <<text[i]>> \o CollapseBlankLines(text, i + 1)
  ELSE LET last == LastNewline(text, i, i)
       IN  IF NewlinesIn(text, i, last) >= 3
           THEN BlankLine \o CollapseBlankLines(text, last + 1)
           ELSE <<text[i]>> \o CollapseBlankLines(text, i + 1)

\* The clean-up every variant of stripToolCallXML ends with.
CleanUp(cleaned) ==
  LET S0 == {Lex(cleaned)}
      S1 == {Lex(RemoveFences(c0, 1, FALSE)) : c0 \in S0}
      S2 == {Lex(RemoveFences(c1, 1, TRUE)) : c1 \in S1}
      S3 == {Lex(RemoveFences(c2, 1, FALSE)) : c2 \in S2}
  IN  TheOne({Trim(CollapseBlankLines(c3, 1)) : c3 \in S3})

stripToolCallXML(text) ==
  TheOne({CleanUp(removed) :
            removed \in {RemoveSpans(read, UseToolSpans(read, 1), 1) :
                           read \in {Lex(text)}}})

\* ---- the codec of utils/xmlParsing, with its preserveToolIndicators option

RECURSIVE NamesOfSpans(_, _)
NamesOfSpans(text, spans) ==
  IF Len(spans) = 0 THEN <<>>
  ELSE
    LET content == SubSeq(text, spans[1].open + 1, spans[1].close - 1)
        nameMatch == FieldMatch(content, "<name>", "</name>")
        name == Trim(nameMatch.group)
        rest == NamesOfSpans(text, Tail(spans))
    IN  IF nameMatch.found /\ name # <<>> THEN <<name>> \o rest ELSE rest

\* The names of the occurrences that have one, in document order.
extractToolNamesFromXML(text) ==
  LET read == Lex(text) IN NamesOfSpans(read, UseToolSpans(read, 1))

\* The display names of utils/xmlParsing: displayNames[toolName] || toolName.
xmlParsing_getToolDisplayName(toolName) ==
  CASE toolName = <<"localSearch">> -> <<"vault search">>
    [] toolName = <<"webSearch">> -> <<"web search">>
    [] toolName = <<"getFileTree">> -> <<"file explorer">>
    [] toolName = <<"getCurrentTime">> -> <<"time check">>
    [] toolName = <<"pomodoroTimer">> -> <<"pomodoro timer">>
    [] toolName = <<"simpleYoutubeTranscription">> -> <<"YouTube transcript">>
    [] toolName = <<"indexVault">> -> <<"vault indexing">>
    [] OTHER -> toolName

\* The text an occurrence is replaced by: "\n[(wrench) Tool call: name]\n".
ToolIndicator(displayName) ==
  <<"\n", "[Tool call:", " ">> \o displayName \o <<"]", "\n">>

RECURSIVE ReplaceSpans(_, _, _, _, _)
\* cleaned.replace(/<use_tool>[\s\S]*?<\/use_tool>/g, () => ...) from index
\* i on: the match is replaced by the indicator of toolNames[toolIndex]
\* while toolIndex < toolNames.length, and by "" afterwards.
ReplaceSpans(text, spans, i, toolNames, toolIndex) ==
  IF Len(spans) = 0 THEN SubSeq(text, i, Len(text))
  ELSE SubSeq(text, i, spans[1].open - 1)
         \o (IF toolIndex < Len(toolNames)
             THEN ToolIndicator(
                    xmlParsing_getToolDisplayName(toolNames[toolIndex + 1]))
             ELSE <<>>)
         \o ReplaceSpans(text, Tail(spans), spans[1].close + 1, toolNames,
                         toolIndex + 1)

\* stripToolCallXML(text, { preserveToolIndicators }) of utils/xmlParsing.
xmlParsing_stripToolCallXML(text, preserveToolIndicators) ==
  LET read == Lex(text)
      spans == UseToolSpans(read, 1)
  IN  IF preserveToolIndicators
      THEN CleanUp(ReplaceSpans(read, spans, 1,
                                extractToolNamesFromXML(text), 0))
      ELSE CleanUp(RemoveSpans(read, spans, 1))

\* ------------------------------------------------- think-block streamer
\* A chunk is [content, reasoning]: content is a list of typed parts
\* [isArray |-> TRUE, parts |-> ...], a string [isArray |-> FALSE, text |-> ...]
\* or absent (isString = FALSE); reasoning is
\* additional_kwargs.reasoning_content, the empty text when absent.
\* A streamer is [hasOpenThinkBlock, fullResponse, published]: published
\* lists the values given to updateCurrentAiMessage, oldest first.

NewStreamer == [hasOpenThinkBlock |-> FALSE, fullResponse |-> <<>>,
                published |-> <<>>]

\* OpenThinkBlock, were the opening marker put in with every piece of
\* reasoning.
OpenThinkBlock_EveryTime(st) ==
  [st EXCEPT !.fullResponse = @ \o <<"\n", "<think>">>,
             !.hasOpenThinkBlock = TRUE]

\* if (!this.hasOpenThinkBlock) { fullResponse += "\n<think>"; ... = true }
OpenThinkBlock(st) ==
  IF st.hasOpenThinkBlock THEN st
  ELSE [st EXCEPT !.fullResponse = @ \o <<"\n", "<think>">>,
                  !.hasOpenThinkBlock = TRUE]

Publish(st) == [st EXCEPT !.published = Append(@, st.fullResponse)]

RECURSIVE handleClaude37Chunk(_, _, _)
\* The pair [st, handled] after the items from the first one on.
handleClaude37Chunk(content, st, textContent) ==
  IF Len(content) = 0
  THEN [st |-> [st EXCEPT !.fullResponse = @ \o textContent],
        handled |-> FALSE]
  ELSE IF content[1].type = "text"
  THEN handleClaude37Chunk(Tail(content), st, textContent \o content[1].text)
  ELSE IF content[1].type = "thinking"
  THEN LET opened == OpenThinkBlock(st)
       IN  [st |-> Publish([opened EXCEPT !.fullResponse =
                                             @ \o content[1].text]),
            handled |-> TRUE]
  ELSE handleClaude37Chunk(Tail(content), st, textContent)

handleDeepseekChunk(chunk, st) ==
  LET s1 == IF chunk.isString
            THEN [st EXCEPT !.fullResponse = @ \o chunk.text] ELSE st
  IN  IF chunk.reasoning # <<>>
      THEN [st |-> [OpenThinkBlock(s1) EXCEPT !.fullResponse =
                                                 @ \o chunk.reasoning],
            handled |-> TRUE]
      ELSE [st |-> s1, handled |-> FALSE]

\* processChunk, were it to publish only the chunks that carry reasoning.
processChunk_PublishesReasoningOnly(chunk, st) ==
  LET r == IF chunk.isArray THEN handleClaude37Chunk(chunk.parts, st, <<>>)
           ELSE handleDeepseekChunk(chunk, st)
      s2 == IF r.st.hasOpenThinkBlock /\ ~r.handled
            THEN [r.st EXCEPT !.fullResponse = @ \o <<"</think>">>,
                              !.hasOpenThinkBlock = FALSE]
            ELSE r.st
  IN  IF r.handled THEN Publish(s2) ELSE s2

processChunk(chunk, st) ==
  LET r == IF chunk.isArray THEN handleClaude37Chunk(chunk.parts, st, <<>>)
           ELSE handleDeepseekChunk(chunk, st)
      s2 == IF r.st.hasOpenThinkBlock /\ ~r.handled
            THEN [r.st EXCEPT !.fullResponse = @ \o <<"</think>">>,
                              !.hasOpenThinkBlock = FALSE]
            ELSE r.st
  IN  Publish(s2)

\* close, were it to leave an open block as it is.
close_LeavesOpen(st) == st

\* close, were it to clear the flag of the block it closes.
close_ResetsFlag(st) ==
  IF st.hasOpenThinkBlock
  THEN Publish([st EXCEPT !.fullResponse = @ \o <<"</think>">>,
                          !.hasOpenThinkBlock = FALSE])
  ELSE st

\* close(): the streamer after it; the value returned is its fullResponse.
close(st) ==
  IF st.hasOpenThinkBlock
  THEN Publish([st EXCEPT !.fullResponse = @ \o <<"</think>">>])
  ELSE st

\* A chunk whose content is the string text.
TextChunk(text) ==
  [isArray |-> FALSE, isString |-> TRUE, text |-> text, parts |-> <<>>,
   reasoning |-> <<>>]

\* ------------------------------------------------- tool execution guard
\* A tool call is [isNull, name, args]: isNull for a null or undefined call,
\* the empty name for a name that is missing or "".

\* The registry of getAvailableTools, in its order.
BuiltinTools ==
  << <<"localSearch">>, <<"webSearch">>, <<"pomodoroTool">>,
     <<"simpleYoutubeTranscriptionTool">>, <<"getCurrentTime">>,
     <<"getTimeInfoByEpoch">>, <<"getTimeRangeMs">>, <<"indexTool">> >>

getAvailableTools(hasVault) ==
  IF hasVault THEN Append(BuiltinTools, <<"getFileTree">>) ELSE BuiltinTools

\* availableTools.find((t) => t.name === toolCall.name)
FindTool(tools, name) == \E i \in 1..Len(tools) : tools[i] = name

InvalidCallRecord(call) ==
  [toolName |-> IF call.isNull \/ call.name = <<>> THEN <<"unknown">>
                ELSE call.name,
   result |-> <<"Error: Invalid tool call - missing tool name">>,
   success |-> FALSE]

NotFoundRecord(call, tools) ==
  [toolName |-> call.name,
   result |-> <<"Error: Tool '">> \o call.name
                \o <<"' not found. Available tools: ">>
                \o Join(tools, <<", ">>),
   success |-> FALSE]

\* The catch block: the error stringified behind "Error: ".
ErrorRecord(call, message) ==
  [toolName |-> call.name, result |-> <<"Error: ">> \o message,
   success |-> FALSE]

TimeoutMessage == <<"Tool execution timed out after 30000ms">>

\* GuardEntryResult, were the registry read before the name is validated.
GuardEntryResult_LookupFirst(call, tools) ==
  IF ~FindTool(tools, call.name)
  THEN [invoke |-> FALSE, lookedUp |-> TRUE,
        record |-> IF call.isNull \/ call.name = <<>>
                   THEN InvalidCallRecord(call)
                   ELSE NotFoundRecord(call, tools)]
  ELSE [invoke |-> TRUE, lookedUp |-> TRUE,
        record |-> InvalidCallRecord(call)]

\* The part of executeSequentialToolCall before the race: the record it
\* returns at once, or invoke = TRUE when the tool is found and called;
\* lookedUp tells whether the registry was read.
GuardEntryResult(call, tools) ==
  IF call.isNull \/ call.name = <<>>
  THEN [invoke |-> FALSE, lookedUp |-> FALSE,
        record |-> InvalidCallRecord(call)]
  ELSE IF ~FindTool(tools, call.name)
  THEN [invoke |-> FALSE, lookedUp |-> TRUE,
        record |-> NotFoundRecord(call, tools)]
  ELSE [invoke |-> TRUE, lookedUp |-> TRUE,
        record |-> InvalidCallRecord(call)]

\* The part after the race was won by the tool with a value: a value is
\* [kind, text] with kind string, object (JSON.stringify gives text), null,
\* undefined, unserializable (JSON.stringify throws) or function
\* (JSON.stringify gives undefined).
ValueRecord(call, value) ==
  IF value.kind \in {"null", "undefined"}
  THEN [toolName |-> call.name,
        result |-> <<"Tool executed but returned no result">>,
        success |-> TRUE]
  ELSE IF value.kind = "unserializable"
  THEN ErrorRecord(call, <<"TypeError: value is not serializable">>)
  ELSE [toolName |-> call.name,
        result |-> IF value.kind = "function" THEN UndefinedValue
                   ELSE value.text,
        success |-> TRUE]

\* The part after the race was lost: the tool threw, or the timer fired.
RejectedRecord(call, message) == ErrorRecord(call, message)

\* -------------------------------------------------------- the agent loop

maxIterations == 4

\* The number of earlier turns (a user and an assistant message each) that
\* the chat memory may hold when run is called.
MaxPriorTurns == 0

\* ABORT_REASON.NEW_CHAT and any other reason a caller aborts with.
AbortReasons == {"new-chat", "user-stopped"}

VARIABLES
  pc,                   \* where run is: an await it is suspended at, or a step
  aborted,              \* abortController.signal.aborted
  abortReason,          \* abortController.signal.reason
  hasVault,             \* this.chainManager.app?.vault is set
  adapter,              \* the ModelAdapter of the chat model, once created
  conversationMessages, \* the transcript sent to the model
  iterationHistory,     \* the display segments of the finished iterations
  collectedSources,     \* the sources collected from localSearch results
  fullAIResponse,       \* the answer run has built
  iteration,            \* the iteration counter of the loop
  callIterations,       \* how many responses decoded to at least one call
  chatStream,           \* the chunks the current model stream still holds
  processedChunks,      \* the chunks given to the current streamer, in order
  streamer,             \* the ThinkBlockStreamer of the current stream
  response,             \* the text streamResponse returned
  toolCalls,            \* the calls decoded from the response
  callIndex,            \* the position of the tool loop in toolCalls
  toolResults,          \* the records of this iteration's calls
  toolCallMessages,     \* the progress markers of this iteration's calls
  currentAiMessage,     \* the last text given to updateCurrentAiMessage
  streamRequests,       \* the number of chatModel.stream calls of the loop
  toolCall,             \* the call executeSequentialToolCall was given
  record,               \* the record executeSequentialToolCall returned
  invocations,          \* the number of ToolManager.callTool calls so far
  racing,               \* the invocation the guard awaits in its race, or 0
  running,              \* the invocations started and not settled
  abandoned,            \* the invocations whose race the timer won
  timersFired,          \* how many of the timers armed so far have fired
  lookups,              \* how often the guard looked a name up in the registry
  settled,              \* how the last race ended: returned, threw or timer
  error,                \* the name of the exception being thrown
  handleResponseCalls,  \* how often run itself called handleResponse
  fallbackRuns,         \* how many fallback runners were constructed and run
  fallbackMessage,      \* the user message the fallback run was given
  fallbackResult,       \* what the fallback run returned
  handleErrorCalls,     \* how many times handleError was called
  addedMessages,        \* the AI answers given to addMessage (with saveContext)
  returned              \* the value run returned, once pc = "done"

vars == <<pc, aborted, abortReason, hasVault, adapter, conversationMessages,
          iterationHistory, collectedSources, fullAIResponse, iteration, callIterations,
          chatStream, processedChunks, streamer, response, toolCalls,
          callIndex, toolResults,
          toolCallMessages, currentAiMessage, streamRequests, toolCall,
          record, invocations, racing, running, abandoned, timersFired,
          lookups, settled, error, handleResponseCalls, fallbackRuns, fallbackMessage, fallbackResult,
          handleErrorCalls, addedMessages, returned>>

signalVars == <<aborted, abortReason>>
loopVars == <<conversationMessages, iterationHistory, collectedSources,
              fullAIResponse, iteration, callIterations, response, toolCalls, callIndex,
              toolResults, toolCallMessages>>
streamVars == <<chatStream, processedChunks, streamer, streamRequests>>
guardVars == <<toolCall, record, invocations, racing, running, abandoned,
               timersFired, lookups, settled>>
endVars == <<error, handleResponseCalls, fallbackRuns, fallbackMessage, fallbackResult,
            handleErrorCalls, addedMessages, returned>>

\* The awaits at which run is suspended and other events can happen.
AwaitPoints == {"awaitMemory", "awaitStream", "awaitTool", "awaitSave",
                "awaitFallback"}

SystemPrompt == <<"system-prompt">>
UserMessage == <<"user-question">>
\* No adapter was created yet.
NoAdapter == [class |-> "none", modelName |-> <<>>]
NoCall == [isNull |-> TRUE, name |-> <<>>,
           args |-> [type |-> "emptyObject", text |-> <<>>]]
NoRecord == [toolName |-> <<>>, result |-> <<>>, success |-> FALSE]

\* extractChatHistory(memoryVariables) for a memory of n earlier turns.
RECURSIVE ChatHistory(_)
ChatHistory(n) ==
  IF n = 0 THEN <<>>
  ELSE ChatHistory(n - 1)
         \o <<[role |-> "user", content |-> <<"earlier-question">>],
              [role |-> "assistant", content |-> <<"earlier-answer">>]>>

\* The markup of one call as the system prompt describes it.
CallMarkup(name, args) ==
  <<"<use_tool>", "\n", "<name>", name, "</name>", "\n",
    "<args>", args, "</args>", "\n", "</use_tool>">>

\* The responses the model may stream, each as its list of chunks.
Scripts ==
  { \* a final answer
    <<TextChunk(<<"a">>)>>,
    \* a stream that ends without any text
    <<>>,
    \* a call occurrence without a name field: it decodes to no call
    <<TextChunk(<<"b", "\n", "<use_tool>", "</use_tool>">>)>>,
    \* reasoning text, then in a second chunk a call of an unknown tool
    <<TextChunk(<<"c", "\n">>), TextChunk(CallMarkup("doesNotExist", "{q}"))>>,
    \* a call of an unknown tool with malformed arguments, a call of
    \* webSearch with an array as arguments and a call of localSearch
    <<TextChunk(CallMarkup("doesNotExist", "{bad") \o <<"\n">>
                  \o CallMarkup("webSearch", "[1]") \o <<"\n">>
                  \o CallMarkup("localSearch", "{}"))>>,
    \* a call of an unknown tool with a scalar as arguments, and a call
    \* whose arguments are the JSON text null
    <<TextChunk(CallMarkup("doesNotExist", "true") \o <<"\n">>
                  \o CallMarkup("webSearch", "null"))>> }

getToolDisplayName(toolName) ==
  CASE toolName = <<"localSearch">> -> <<"vault search">>
    [] toolName = <<"webSearch">> -> <<"web search">>
    [] toolName = <<"getFileTree">> -> <<"file tree">>
    [] toolName = <<"getCurrentTime">> -> <<"current time">>
    [] toolName = <<"pomodoroTool">> -> <<"pomodoro timer">>
    [] toolName = <<"simpleYoutubeTranscriptionTool">>
         -> <<"YouTube transcription">>
    [] toolName = <<"indexTool">> -> <<"index">>
    [] OTHER -> toolName

getToolEmoji(toolName) ==
  CASE toolName = <<"localSearch">> -> <<":mag:">>
    [] toolName = <<"webSearch">> -> <<":globe:">>
    [] toolName = <<"getFileTree">> -> <<":folder:">>
    [] toolName = <<"getCurrentTime">> -> <<":clock:">>
    [] toolName = <<"pomodoroTool">> -> <<":timer:">>
    [] toolName = <<"simpleYoutubeTranscriptionTool">> -> <<":tv:">>
    [] toolName = <<"indexTool">> -> <<":books:">>
    [] OTHER -> <<":wrench:">>

\* `<br/>\n\n${toolEmoji} *Calling ${toolDisplayName}...*\n\n<br/>`
ToolCallingMessage(name) ==
  <<"<br/>">> \o BlankLine \o getToolEmoji(name) \o <<" *Calling ">>
    \o getToolDisplayName(name) \o <<"...*">> \o BlankLine \o <<"<br/>">>

\* Object.keys(toolCall.args) throws a TypeError for null.
logToolCallThrows(call) == call.args.type = "null"

\* The documents a search result text may list, with the source each gives.
DocOf(tok) ==
  CASE tok = "docA5" -> [title |-> "A", score |-> 5]
    [] tok = "docB7" -> [title |-> "B", score |-> 7]
    [] tok = "docA9" -> [title |-> "A", score |-> 9]
    [] tok = "docB3" -> [title |-> "B", score |-> 3]
    [] tok = "docC7" -> [title |-> "C", score |-> 7]
    [] OTHER -> [title |-> "", score |-> 0]

IsDoc(tok) == tok \in {"docA5", "docB7", "docA9", "docB3", "docC7"}

\* JSON.parse(result.result), Array.isArray and the map to sources: the
\* sources to collect, none when the text is no JSON array of documents.
SourcesOf(result) ==
  IF /\ Len(result) >= 2
     /\ result[1] = "[" /\ result[Len(result)] = "]"
     /\ \A i \in 2..(Len(result) - 1) : IsDoc(result[i])
  THEN [i \in 1..(Len(result) - 2) |-> DocOf(result[i + 1])]
  ELSE <<>>

\* if (toolCall.name === "localSearch" && result.success): the sources
\* collected behind the call of the tool name with the record result.
CollectSources(collected, name, result) ==
  IF name = <<"localSearch">> /\ result.success
  THEN collected \o SourcesOf(result.result)
  ELSE collected

RECURSIVE KeepFirst(_, _)
\* KeepBest, were the first source of a title kept whatever the scores.
KeepFirst(sources, kept) ==
  IF Len(sources) = 0 THEN kept
  ELSE IF \E i \in 1..Len(kept) : kept[i].title = sources[1].title
  THEN KeepFirst(Tail(sources), kept)
  ELSE KeepFirst(Tail(sources), Append(kept, sources[1]))

RECURSIVE KeepBest(_, _)
\* The map of deduplicateSources after the sources, as a list in insertion
\* order: a later source replaces the entry of its title when it scores more.
KeepBest(sources, kept) ==
  IF Len(sources) = 0 THEN kept
  ELSE LET src == sources[1]
           at == {i \in 1..Len(kept) : kept[i].title = src.title}
       IN  IF at = {} THEN KeepBest(Tail(sources), Append(kept, src))
           ELSE LET i == CHOOSE j \in at : TRUE
                IN  KeepBest(Tail(sources),
                             IF src.score > kept[i].score
                             THEN [kept EXCEPT ![i] = src] ELSE kept)

RECURSIVE InsertByScore(_, _)
InsertByScore(sorted, src) ==
  IF Len(sorted) = 0 THEN <<src>>
  ELSE IF sorted[1].score >= src.score
  THEN <<sorted[1]>> \o InsertByScore(Tail(sorted), src)
  ELSE <<src>> \o sorted

RECURSIVE SortByScore(_)
\* Array.prototype.sort((a, b) => b.score - a.score), which is stable.
SortByScore(sources) ==
  IF Len(sources) = 0 THEN <<>>
  ELSE InsertByScore(SortByScore(SubSeq(sources, 1, Len(sources) - 1)),
                     sources[Len(sources)])

deduplicateSources(sources) == SortByScore(KeepBest(sources, <<>>))

\* ---------------------------------------------------------------- run

Init ==
  /\ pc = "awaitMemory"
  /\ aborted = FALSE
  /\ abortReason = "none"
  /\ hasVault = TRUE
  /\ adapter = NoAdapter
  /\ conversationMessages = <<>>
  /\ iterationHistory = <<>>
  /\ collectedSources = <<>>
  /\ fullAIResponse = <<>>
  /\ iteration = 0
  /\ callIterations = 0
  /\ chatStream = <<>>
  /\ processedChunks = <<>>
  /\ streamer = NewStreamer
  /\ response = <<>>
  /\ toolCalls = <<>>
  /\ callIndex = 0
  /\ toolResults = <<>>
  /\ toolCallMessages = <<>>
  /\ currentAiMessage = <<>>
  /\ streamRequests = 0
  /\ toolCall = NoCall
  /\ record = NoRecord
  /\ invocations = 0
  /\ racing = 0
  /\ running = {}
  /\ abandoned = {}
  /\ timersFired = 0
  /\ lookups = 0
  /\ settled = "none"
  /\ error = "none"
  /\ handleResponseCalls = 0
  /\ fallbackRuns = 0
  /\ fallbackMessage = <<>>
  /\ fallbackResult = <<>>
  /\ handleErrorCalls = 0
  /\ addedMessages = <<>>
  /\ returned = <<>>

\* abortController.abort(reason), by the caller, while run is suspended.
Abort(reason) ==
  /\ pc \in AwaitPoints
  /\ ~aborted
  /\ aborted' = TRUE
  /\ abortReason' = reason
  /\ UNCHANGED <<pc, hasVault, adapter, loopVars, streamVars, guardVars, endVars,
                 currentAiMessage>>

\* memory.loadMemoryVariables resolves: the initial transcript is built.
BuildTranscript(priorTurns) ==
  /\ pc = "awaitMemory"
  /\ conversationMessages' =
       <<[role |-> "system", content |-> SystemPrompt]>>
         \o ChatHistory(priorTurns)
         \o <<[role |-> "user", content |-> UserMessage]>>
  /\ pc' = "loopHead"
  /\ UNCHANGED <<signalVars, hasVault, adapter, iterationHistory, collectedSources,
                 fullAIResponse, iteration, callIterations, response, toolCalls, callIndex,
                 toolResults, toolCallMessages, streamVars, guardVars,
                 endVars, currentAiMessage>>

\* memory.loadMemoryVariables rejects.
MemoryFails ==
  /\ pc = "awaitMemory"
  /\ error' = "Error"
  /\ pc' = "catch"
  /\ UNCHANGED <<signalVars, hasVault, adapter, loopVars, streamVars, guardVars,
                 handleResponseCalls, fallbackRuns, fallbackMessage, fallbackResult,
                 handleErrorCalls, addedMessages, returned,
                 currentAiMessage>>

\* LoopHeadWith, were the iterations not counted against maxIterations.
LoopHeadWith_Unbounded(scripts) ==
  /\ pc = "loopHead"
  /\ IF ~aborted
     THEN /\ iteration' = iteration + 1
          /\ streamRequests' = streamRequests + 1
          /\ streamer' = NewStreamer
          /\ \E script \in scripts : chatStream' = script
          /\ processedChunks' = <<>>
          /\ pc' = "awaitStream"
     ELSE /\ pc' = "afterLoop"
          /\ UNCHANGED <<iteration, streamVars>>
  /\ UNCHANGED <<signalVars, hasVault, adapter, conversationMessages,
                 iterationHistory, collectedSources, fullAIResponse,
                 response, callIterations, toolCalls, callIndex, toolResults,
                 toolCallMessages, guardVars, endVars, currentAiMessage>>

\* while (iteration < maxIterations) { if (aborted) break; iteration++;
\* streamResponse(...) up to its first await }
LoopHeadWith(scripts) ==
  /\ pc = "loopHead"
  /\ IF iteration < maxIterations /\ ~aborted
     THEN /\ iteration' = iteration + 1
          /\ streamRequests' = streamRequests + 1
          /\ streamer' = NewStreamer
          /\ \E script \in scripts : chatStream' = script
          /\ processedChunks' = <<>>
          /\ pc' = "awaitStream"
     ELSE /\ pc' = "afterLoop"
          /\ UNCHANGED <<iteration, streamVars>>
  /\ UNCHANGED <<signalVars, hasVault, adapter, conversationMessages,
                 iterationHistory, collectedSources, fullAIResponse,
                 response, callIterations, toolCalls, callIndex, toolResults,
                 toolCallMessages, guardVars, endVars, currentAiMessage>>

\* The loop head with a model that may stream any of the Scripts.
LoopHead == LoopHeadWith(Scripts)

\* StreamDisplay, were the callback to show the response in progress alone.
StreamDisplay_ResponseOnly(published, before) ==
  IF Len(published) = 0 THEN before
  ELSE stripToolCallXML(published[Len(published)])

\* The callback run gives streamResponse, applied to what the streamer
\* published: the last text it shows, or the text shown before.
StreamDisplay(published, before) ==
  IF Len(published) = 0 THEN before
  ELSE Join(Append(iterationHistory,
                   stripToolCallXML(published[Len(published)])), BlankLine)

\* streamResponse returns text: run goes on behind the await.
StreamReturns(st) ==
  /\ streamer' = [st EXCEPT !.published = <<>>]
  /\ response' = st.fullResponse
  /\ currentAiMessage' = StreamDisplay(st.published, currentAiMessage)
  /\ pc' = "afterStream"

\* for await (const chunk of chatStream): the next chunk arrives.
StreamChunk ==
  /\ pc = "awaitStream"
  /\ Len(chatStream) > 0
  /\ IF aborted
     THEN /\ StreamReturns(close(streamer))
          /\ UNCHANGED <<chatStream, processedChunks>>
     ELSE LET st == processChunk(chatStream[1], streamer)
          IN  /\ streamer' = [st EXCEPT !.published = <<>>]
              /\ currentAiMessage' = StreamDisplay(st.published,
                                                   currentAiMessage)
              /\ chatStream' = Tail(chatStream)
              /\ processedChunks' = Append(processedChunks, chatStream[1])
              /\ UNCHANGED <<pc, response>>
  /\ UNCHANGED <<signalVars, hasVault, adapter, conversationMessages,
                 iterationHistory, collectedSources, fullAIResponse,
                 iteration, callIterations, toolCalls, callIndex, toolResults,
                 toolCallMessages, streamRequests, guardVars, endVars>>

\* The stream ends: return streamer.close().
StreamEnd ==
  /\ pc = "awaitStream"
  /\ Len(chatStream) = 0
  /\ StreamReturns(close(streamer))
  /\ UNCHANGED <<signalVars, hasVault, adapter, conversationMessages,
                 iterationHistory, collectedSources, fullAIResponse,
                 iteration, callIterations, toolCalls, callIndex, toolResults,
                 toolCallMessages, chatStream, processedChunks,
                 streamRequests, guardVars,
                 endVars>>

\* The stream throws an error of the name given: streamResponse returns
\* the text so far for an AbortError or a set signal, and rethrows otherwise.
StreamFails(name) ==
  /\ pc = "awaitStream"
  /\ IF name = "AbortError" \/ aborted
     THEN /\ StreamReturns(close(streamer))
          /\ UNCHANGED error
     ELSE /\ error' = name
          /\ pc' = "catch"
          /\ UNCHANGED <<streamer, response, currentAiMessage>>
  /\ UNCHANGED <<signalVars, hasVault, adapter, conversationMessages,
                 iterationHistory, collectedSources, fullAIResponse,
                 iteration, callIterations, toolCalls, callIndex, toolResults,
                 toolCallMessages, chatStream, processedChunks,
                 streamRequests, guardVars,
                 handleResponseCalls, fallbackRuns, fallbackMessage, fallbackResult,
                 handleErrorCalls, addedMessages, returned>>

\* AfterStream, were the answer the last response alone.
AfterStream_LastOnly ==
  /\ pc = "afterStream"
  /\ IF response = <<>>
     THEN /\ pc' = "afterLoop"
          /\ UNCHANGED <<toolCalls, fullAIResponse, iterationHistory,
                         toolResults, toolCallMessages, callIndex,
                         callIterations>>
     ELSE /\ toolCalls' = parseXMLToolCalls(response)
          /\ IF Len(toolCalls') = 0
             THEN /\ fullAIResponse' =
                       stripToolCallXML(response)
                  /\ pc' = "afterLoop"
                  /\ UNCHANGED <<iterationHistory, toolResults,
                                 toolCallMessages, callIndex,
                                 callIterations>>
             ELSE /\ iterationHistory' =
                       Append(iterationHistory, stripToolCallXML(response))
                  /\ toolResults' = <<>>
                  /\ toolCallMessages' = <<>>
                  /\ callIndex' = 1
                  /\ callIterations' = callIterations + 1
                  /\ pc' = "toolLoop"
                  /\ UNCHANGED fullAIResponse
  /\ UNCHANGED <<signalVars, hasVault, adapter, conversationMessages,
                 collectedSources, iteration, response, streamVars,
                 guardVars, endVars, currentAiMessage>>

\* if (!response) break; parse; the final answer, or the start of the
\* tool loop.
AfterStream ==
  /\ pc = "afterStream"
  /\ IF response = <<>>
     THEN /\ pc' = "afterLoop"
          /\ UNCHANGED <<toolCalls, fullAIResponse, iterationHistory,
                         toolResults, toolCallMessages, callIndex,
                         callIterations>>
     ELSE /\ toolCalls' = parseXMLToolCalls(response)
          /\ IF Len(toolCalls') = 0
             THEN /\ fullAIResponse' =
                       Join(Append(iterationHistory,
                                   stripToolCallXML(response)), BlankLine)
                  /\ pc' = "afterLoop"
                  /\ UNCHANGED <<iterationHistory, toolResults,
                                 toolCallMessages, callIndex,
                                 callIterations>>
             ELSE /\ iterationHistory' =
                       Append(iterationHistory, stripToolCallXML(response))
                  /\ toolResults' = <<>>
                  /\ toolCallMessages' = <<>>
                  /\ callIndex' = 1
                  /\ callIterations' = callIterations + 1
                  /\ pc' = "toolLoop"
                  /\ UNCHANGED fullAIResponse
  /\ UNCHANGED <<signalVars, hasVault, adapter, conversationMessages,
                 collectedSources, iteration, response, streamVars,
                 guardVars, endVars, currentAiMessage>>

\* ToolLoop, were the signal not looked at before a tool call.
ToolLoop_NoAbortCheck ==
  /\ pc = "toolLoop"
  /\ IF callIndex > Len(toolCalls)
     THEN /\ pc' = "iterationEnd"
          /\ UNCHANGED <<toolCallMessages, currentAiMessage, toolCall,
                         error>>
     ELSE IF logToolCallThrows(toolCalls[callIndex])
     THEN /\ error' = "TypeError"
          /\ pc' = "catch"
          /\ UNCHANGED <<toolCallMessages, currentAiMessage, toolCall>>
     ELSE /\ toolCallMessages' =
               Append(toolCallMessages,
                      ToolCallingMessage(toolCalls[callIndex].name))
          /\ currentAiMessage' =
               Join(iterationHistory \o toolCallMessages', BlankLine)
          /\ toolCall' = [isNull |-> FALSE,
                          name |-> toolCalls[callIndex].name,
                          args |-> toolCalls[callIndex].args]
          /\ pc' = "guardEntry"
          /\ UNCHANGED error
  /\ UNCHANGED <<signalVars, hasVault, adapter, conversationMessages,
                 iterationHistory, collectedSources, fullAIResponse,
                 iteration, callIterations, response, toolCalls, callIndex, toolResults,
                 streamVars, record, invocations, racing, running,
                 abandoned, timersFired, lookups, settled,
                 handleResponseCalls, fallbackRuns,
                 fallbackMessage, fallbackResult, handleErrorCalls, addedMessages, returned>>

\* ToolLoop, were the calls of the last iteration left alone.
ToolLoop_IdleLastIteration ==
  /\ pc = "toolLoop"
  /\ IF callIndex > Len(toolCalls) \/ aborted
        \/ iteration = maxIterations
     THEN /\ pc' = "iterationEnd"
          /\ UNCHANGED <<toolCallMessages, currentAiMessage, toolCall,
                         error>>
     ELSE IF logToolCallThrows(toolCalls[callIndex])
     THEN /\ error' = "TypeError"
          /\ pc' = "catch"
          /\ UNCHANGED <<toolCallMessages, currentAiMessage, toolCall>>
     ELSE /\ toolCallMessages' =
               Append(toolCallMessages,
                      ToolCallingMessage(toolCalls[callIndex].name))
          /\ currentAiMessage' =
               Join(iterationHistory \o toolCallMessages', BlankLine)
          /\ toolCall' = [isNull |-> FALSE,
                          name |-> toolCalls[callIndex].name,
                          args |-> toolCalls[callIndex].args]
          /\ pc' = "guardEntry"
          /\ UNCHANGED error
  /\ UNCHANGED <<signalVars, hasVault, adapter, conversationMessages,
                 iterationHistory, collectedSources, fullAIResponse,
                 iteration, callIterations, response, toolCalls, callIndex, toolResults,
                 streamVars, record, invocations, racing, running,
                 abandoned, timersFired, lookups, settled,
                 handleResponseCalls, fallbackRuns,
                 fallbackMessage, fallbackResult, handleErrorCalls, addedMessages, returned>>

\* for (const toolCall of toolCalls) { if (aborted) break; logToolCall;
\* the progress marker; executeSequentialToolCall(toolCall) is called }
ToolLoop ==
  /\ pc = "toolLoop"
  /\ IF callIndex > Len(toolCalls) \/ aborted
     THEN /\ pc' = "iterationEnd"
          /\ UNCHANGED <<toolCallMessages, currentAiMessage, toolCall,
                         error>>
     ELSE IF logToolCallThrows(toolCalls[callIndex])
     THEN /\ error' = "TypeError"
          /\ pc' = "catch"
          /\ UNCHANGED <<toolCallMessages, currentAiMessage, toolCall>>
     ELSE /\ toolCallMessages' =
               Append(toolCallMessages,
                      ToolCallingMessage(toolCalls[callIndex].name))
          /\ currentAiMessage' =
               Join(iterationHistory \o toolCallMessages', BlankLine)
          /\ toolCall' = [isNull |-> FALSE,
                          name |-> toolCalls[callIndex].name,
                          args |-> toolCalls[callIndex].args]
          /\ pc' = "guardEntry"
          /\ UNCHANGED error
  /\ UNCHANGED <<signalVars, hasVault, adapter, conversationMessages,
                 iterationHistory, collectedSources, fullAIResponse,
                 iteration, callIterations, response, toolCalls, callIndex, toolResults,
                 streamVars, record, invocations, racing, running,
                 abandoned, timersFired, lookups, settled,
                 handleResponseCalls, fallbackRuns,
                 fallbackMessage, fallbackResult, handleErrorCalls, addedMessages, returned>>

\* The tokens that tell the values of different invocations apart.
ValueToken(id) ==
  <<"v1", "v2", "v3", "v4", "v5", "v6", "v7", "v8", "v9", "v10", "v11",
    "v12">>[id]

\* What the invocation id of a tool may return.  The tools are outside the
\* runner: localSearch returns a JSON list of documents, webSearch a text,
\* and any other tool a value of any kind.
ToolValues(name, id) ==
  IF name = <<"localSearch">>
  THEN {[kind |-> "string", text |-> <<"[", "docA5", "docB7", "]">>]}
  ELSE IF name = <<"webSearch">>
  THEN {[kind |-> "string", text |-> <<"web-result", ValueToken(id)>>]}
  ELSE {[kind |-> "string", text |-> <<ValueToken(id)>>],
        [kind |-> "object", text |-> <<"{", ValueToken(id), "}">>],
        [kind |-> "null", text |-> <<>>],
        [kind |-> "undefined", text |-> <<>>],
        [kind |-> "unserializable", text |-> <<>>],
        [kind |-> "function", text |-> <<>>]}

\* Whether the tool may throw, and whether it may take longer than the
\* timer: localSearch answers in time, webSearch does not throw.
ToolMayThrow(name) == name # <<"webSearch">>

ToolMayHang(name) == name # <<"localSearch">>

\* GuardEntry, were the tool called without awaiting the race.
GuardEntry_NoAwait ==
  /\ pc = "guardEntry"
  /\ LET r == GuardEntryResult(toolCall, getAvailableTools(hasVault))
     IN  IF r.invoke
         THEN /\ invocations' = invocations + 1
              /\ running' = running \cup {invocations + 1}
              /\ pc' = "guardReturn"
              /\ UNCHANGED <<record, racing>>
         ELSE /\ record' = r.record
              /\ pc' = "guardReturn"
              /\ UNCHANGED <<invocations, racing, running>>
  /\ lookups' = IF GuardEntryResult(toolCall, getAvailableTools(hasVault))
                     .lookedUp
                 THEN lookups + 1 ELSE lookups
  /\ settled' = "none"
  /\ UNCHANGED <<signalVars, hasVault, adapter, loopVars, streamVars, toolCall,
                 abandoned, timersFired, endVars, currentAiMessage>>

\* executeSequentialToolCall up to the race: it returns at once for an
\* invalid or unknown call, and else calls the tool and arms the timer.
GuardEntry ==
  /\ pc = "guardEntry"
  /\ LET r == GuardEntryResult(toolCall, getAvailableTools(hasVault))
     IN  IF r.invoke
         THEN /\ invocations' = invocations + 1
              /\ racing' = invocations + 1
              /\ running' = running \cup {invocations + 1}
              /\ pc' = "awaitTool"
              /\ UNCHANGED record
         ELSE /\ record' = r.record
              /\ pc' = "guardReturn"
              /\ UNCHANGED <<invocations, racing, running>>
  /\ lookups' = IF GuardEntryResult(toolCall, getAvailableTools(hasVault))
                     .lookedUp
                 THEN lookups + 1 ELSE lookups
  /\ settled' = "none"
  /\ UNCHANGED <<signalVars, hasVault, adapter, loopVars, streamVars, toolCall,
                 abandoned, timersFired, endVars, currentAiMessage>>

\* The tool of the race returns a value before the timer fires.
ToolReturns ==
  /\ pc = "awaitTool"
  /\ racing # 0
  /\ \E value \in ToolValues(toolCall.name, racing) :
       record' = ValueRecord(toolCall, value)
  /\ running' = running \ {racing}
  /\ racing' = 0
  /\ settled' = "returned"
  /\ pc' = "guardReturn"
  /\ UNCHANGED <<signalVars, hasVault, adapter, loopVars, streamVars, toolCall,
                 invocations, abandoned, timersFired, lookups, endVars,
                 currentAiMessage>>

\* The tool of the race throws before the timer fires.
ToolThrows ==
  /\ pc = "awaitTool"
  /\ racing # 0
  /\ ToolMayThrow(toolCall.name)
  /\ record' = RejectedRecord(toolCall, <<"tool failed">>)
  /\ running' = running \ {racing}
  /\ racing' = 0
  /\ settled' = "threw"
  /\ pc' = "guardReturn"
  /\ UNCHANGED <<signalVars, hasVault, adapter, loopVars, streamVars, toolCall,
                 invocations, abandoned, timersFired, lookups, endVars,
                 currentAiMessage>>

\* The places at which a timer or an abandoned tool can act: run is
\* suspended at an await, or has returned; or a caller of the guard alone
\* is idle between two calls.
EventPoints == AwaitPoints \cup {"done", "idle"}

\* TimerFires, were the rejection of a timer to reach the record of a race
\* that is settled already.
TimerFires_RejectsSettled ==
  /\ pc \in EventPoints
  /\ timersFired < invocations
  /\ timersFired' = timersFired + 1
  /\ IF racing = timersFired + 1
     THEN /\ pc = "awaitTool"
          /\ ToolMayHang(toolCall.name)
          /\ record' = RejectedRecord(toolCall, TimeoutMessage)
          /\ abandoned' = abandoned \cup {racing}
          /\ racing' = 0
          /\ settled' = "timer"
          /\ pc' = "guardReturn"
     ELSE /\ record' = RejectedRecord(toolCall, TimeoutMessage)
          /\ UNCHANGED <<pc, abandoned, racing, settled>>
  /\ UNCHANGED <<signalVars, hasVault, adapter, loopVars, streamVars, toolCall,
                 invocations, running, lookups, endVars, currentAiMessage>>

\* The oldest timer not yet fired fires (all timers wait equally long).  It
\* rejects the race the guard awaits, if that is its own race; the tool is
\* left running.  A timer whose race is settled changes nothing.
TimerFires ==
  /\ pc \in EventPoints
  /\ timersFired < invocations
  /\ timersFired' = timersFired + 1
  /\ IF racing = timersFired + 1
     THEN /\ pc = "awaitTool"
          /\ ToolMayHang(toolCall.name)
          /\ record' = RejectedRecord(toolCall, TimeoutMessage)
          /\ abandoned' = abandoned \cup {racing}
          /\ racing' = 0
          /\ settled' = "timer"
          /\ pc' = "guardReturn"
     ELSE UNCHANGED <<pc, record, abandoned, racing, settled>>
  /\ UNCHANGED <<signalVars, hasVault, adapter, loopVars, streamVars, toolCall,
                 invocations, running, lookups, endVars, currentAiMessage>>

\* A tool whose race the timer won settles (with a value or an error):
\* nothing awaits it.
AbandonedToolSettles(id) ==
  /\ pc \in EventPoints
  /\ id \in running \cap abandoned
  /\ running' = running \ {id}
  /\ UNCHANGED <<pc, signalVars, hasVault, adapter, loopVars, streamVars, toolCall,
                 record, invocations, racing, abandoned, timersFired,
                 lookups, settled, endVars, currentAiMessage>>

\* The record is pushed and the sources of a localSearch result collected.
ToolResult ==
  /\ pc = "guardReturn"
  /\ toolResults' = Append(toolResults, record)
  /\ collectedSources' =
       CollectSources(collectedSources, toolCalls[callIndex].name, record)
  /\ callIndex' = callIndex + 1
  /\ pc' = "toolLoop"
  /\ UNCHANGED <<signalVars, hasVault, adapter, conversationMessages,
                 iterationHistory, fullAIResponse, iteration, callIterations, response,
                 toolCalls, toolCallMessages, streamVars, guardVars,
                 endVars, currentAiMessage>>

\* `Tool '${result.toolName}' result: ${result.result}`
ToolResultBlock(result) ==
  <<"Tool '">> \o result.toolName \o <<"' result: ">>
    \o Interpolate(result.result)

ToolResultsForConversation(results) ==
  Join([i \in 1..Len(results) |-> ToolResultBlock(results[i])], BlankLine)

\* IterationEnd, were the tool results put in the history as well.
IterationEnd_ResultsInHistory ==
  /\ pc = "iterationEnd"
  /\ iterationHistory' =
       IF Len(toolCallMessages) > 0
       THEN Append(iterationHistory,
                   Join(toolCallMessages, <<"\n">>)
                     \o ToolResultsForConversation(toolResults))
       ELSE iterationHistory
  /\ conversationMessages' =
       conversationMessages
         \o <<[role |-> "assistant", content |-> response],
              [role |-> "user",
               content |-> ToolResultsForConversation(toolResults)]>>
  /\ pc' = "loopHead"
  /\ UNCHANGED <<signalVars, hasVault, adapter, collectedSources, fullAIResponse,
                 iteration, callIterations, response, toolCalls, callIndex, toolResults,
                 toolCallMessages, streamVars, guardVars, endVars,
                 currentAiMessage>>

\* The end of the loop body: the markers join the history, the raw response
\* and the tool results join the transcript.
IterationEnd ==
  /\ pc = "iterationEnd"
  /\ iterationHistory' =
       IF Len(toolCallMessages) > 0
       THEN Append(iterationHistory, Join(toolCallMessages, <<"\n">>))
       ELSE iterationHistory
  /\ conversationMessages' =
       conversationMessages
         \o <<[role |-> "assistant", content |-> response],
              [role |-> "user",
               content |-> ToolResultsForConversation(toolResults)]>>
  /\ pc' = "loopHead"
  /\ UNCHANGED <<signalVars, hasVault, adapter, collectedSources, fullAIResponse,
                 iteration, callIterations, response, toolCalls, callIndex, toolResults,
                 toolCallMessages, streamVars, guardVars, endVars,
                 currentAiMessage>>

\* AfterLoop, were the history joined whenever the loop leaves no answer.
AfterLoop_JoinsAlways ==
  /\ pc = "afterLoop"
  /\ fullAIResponse' =
       IF fullAIResponse = <<>>
       THEN Join(iterationHistory, BlankLine)
       ELSE fullAIResponse
  /\ pc' = "handleResponse"
  /\ UNCHANGED <<signalVars, hasVault, adapter, conversationMessages,
                 iterationHistory, collectedSources, iteration, callIterations, response,
                 toolCalls, callIndex, toolResults, toolCallMessages,
                 streamVars, guardVars, endVars, currentAiMessage>>

\* if (iteration >= maxIterations && !fullAIResponse) the history is the
\* answer; the try block ends.
AfterLoop ==
  /\ pc = "afterLoop"
  /\ fullAIResponse' =
       IF iteration >= maxIterations /\ fullAIResponse = <<>>
       THEN Join(iterationHistory, BlankLine)
       ELSE fullAIResponse
  /\ pc' = "handleResponse"
  /\ UNCHANGED <<signalVars, hasVault, adapter, conversationMessages,
                 iterationHistory, collectedSources, iteration, callIterations, response,
                 toolCalls, callIndex, toolResults, toolCallMessages,
                 streamVars, guardVars, endVars, currentAiMessage>>

\* handleResponse up to its await: the answer is saved unless it is empty
\* or the run was aborted for a new chat.
HandleResponse ==
  /\ pc = "handleResponse"
  /\ handleResponseCalls' = handleResponseCalls + 1
  /\ IF fullAIResponse # <<>> /\ ~(aborted /\ abortReason = "new-chat")
     THEN /\ pc' = "awaitSave"
          /\ UNCHANGED <<currentAiMessage, returned>>
     ELSE /\ currentAiMessage' =
               IF abortReason = "new-chat" THEN <<>> ELSE currentAiMessage
          /\ returned' = fullAIResponse
          /\ pc' = "done"
  /\ UNCHANGED <<signalVars, hasVault, adapter, loopVars, streamVars, guardVars,
                 error, fallbackRuns, fallbackMessage, fallbackResult, handleErrorCalls,
                 addedMessages>>

\* saveContext resolves: addMessage, the streaming message is cleared, and
\* run returns the answer.
SaveDone ==
  /\ pc = "awaitSave"
  /\ addedMessages' =
       Append(addedMessages,
              [message |-> fullAIResponse,
               sources |-> deduplicateSources(collectedSources),
               isErrorMessage |-> FALSE])
  /\ currentAiMessage' = <<>>
  /\ returned' = fullAIResponse
  /\ pc' = "done"
  /\ UNCHANGED <<signalVars, hasVault, adapter, loopVars, streamVars, guardVars,
                 error, handleResponseCalls, fallbackRuns, fallbackMessage, fallbackResult,
                 handleErrorCalls>>

\* catch (error): silent for an AbortError or a set signal, and else the
\* fallback runner is constructed and run.
Catch ==
  /\ pc = "catch"
  /\ IF error = "AbortError" \/ aborted
     THEN /\ pc' = "handleResponse"
          /\ UNCHANGED <<fallbackRuns, fallbackMessage>>
     ELSE /\ fallbackRuns' = fallbackRuns + 1
          /\ fallbackMessage' = UserMessage
          /\ pc' = "awaitFallback"
  /\ UNCHANGED <<signalVars, hasVault, adapter, loopVars, streamVars, guardVars,
                 error, handleResponseCalls, fallbackResult,
                 handleErrorCalls, addedMessages, returned,
                 currentAiMessage>>

\* The end of CopilotPlusChainRunner.run for the text its model call gave:
\* nothing for a new-chat abort, and else its own handleResponse.
PlusRunResult(text) ==
  IF aborted /\ abortReason = "new-chat" THEN <<>> ELSE text

\* FallbackReturns, were the answer of the loop handed to handleResponse
\* behind the fallback run.
FallbackReturns_ThenHandleResponse(text) ==
  /\ pc = "awaitFallback"
  /\ fallbackResult' = PlusRunResult(text)
  /\ addedMessages' =
       IF PlusRunResult(text) # <<>>
       THEN Append(addedMessages,
                   [message |-> PlusRunResult(text), sources |-> <<>>,
                    isErrorMessage |-> FALSE])
       ELSE addedMessages
  /\ currentAiMessage' = <<>>
  /\ pc' = "handleResponse"
  /\ UNCHANGED <<signalVars, hasVault, adapter, loopVars, streamVars, guardVars,
                 error, handleResponseCalls, fallbackRuns, fallbackMessage,
                 handleErrorCalls, returned>>

\* The fallback run returns: run returns what it returned.
FallbackReturns(text) ==
  /\ pc = "awaitFallback"
  /\ fallbackResult' = PlusRunResult(text)
  /\ addedMessages' =
       IF PlusRunResult(text) # <<>>
       THEN Append(addedMessages,
                   [message |-> PlusRunResult(text), sources |-> <<>>,
                    isErrorMessage |-> FALSE])
       ELSE addedMessages
  /\ currentAiMessage' = <<>>
  /\ returned' = fallbackResult'
  /\ pc' = "done"
  /\ UNCHANGED <<signalVars, hasVault, adapter, loopVars, streamVars, guardVars,
                 error, handleResponseCalls, fallbackRuns, fallbackMessage,
                 handleErrorCalls>>

\* The fallback run fails inside its own try block while the signal is not
\* set: its catch calls handleError, its handleResponse is given "" and
\* saves nothing, and the fallback run returns "".  (With the signal set
\* its catch is silent and it returns as FallbackReturns tells.)
FallbackFailsInside ==
  /\ pc = "awaitFallback"
  /\ ~aborted
  /\ error' = "PlusError"
  /\ handleErrorCalls' = handleErrorCalls + 1
  /\ addedMessages' =
       Append(addedMessages,
              [message |-> <<"error-message">>, sources |-> <<>>,
               isErrorMessage |-> TRUE])
  /\ currentAiMessage' = <<>>
  /\ fallbackResult' = <<>>
  /\ returned' = <<>>
  /\ pc' = "done"
  /\ UNCHANGED <<signalVars, hasVault, adapter, loopVars, streamVars, guardVars,
                 handleResponseCalls, fallbackRuns, fallbackMessage>>

\* FallbackThrows, were the agent loop tried again after the fallback run
\* failed.
FallbackThrows_Retries ==
  /\ pc = "awaitFallback"
  /\ ~(aborted /\ abortReason = "new-chat")
  /\ error' = "FallbackError"
  /\ handleErrorCalls' = handleErrorCalls + 1
  /\ addedMessages' =
       Append(addedMessages,
              [message |-> <<"error-message">>, sources |-> <<>>,
               isErrorMessage |-> TRUE])
  /\ currentAiMessage' = <<>>
  /\ pc' = "catch"
  /\ UNCHANGED <<signalVars, hasVault, adapter, loopVars, streamVars, guardVars,
                 handleResponseCalls, fallbackRuns, fallbackMessage,
                 fallbackResult, returned>>

\* The fallback run throws, which it can behind its try block, where its
\* handleResponse saves the answer (not for a new-chat abort, which
\* returns before): handleError shows the error, run returns "".
FallbackThrows ==
  /\ pc = "awaitFallback"
  /\ ~(aborted /\ abortReason = "new-chat")
  /\ error' = "FallbackError"
  /\ handleErrorCalls' = handleErrorCalls + 1
  /\ addedMessages' =
       Append(addedMessages,
              [message |-> <<"error-message">>, sources |-> <<>>,
               isErrorMessage |-> TRUE])
  /\ currentAiMessage' = <<>>
  /\ returned' = <<>>
  /\ pc' = "done"
  /\ UNCHANGED <<signalVars, hasVault, adapter, loopVars, streamVars, guardVars,
                 handleResponseCalls, fallbackRuns, fallbackMessage,
                 fallbackResult>>

Next ==
  \/ \E reason \in AbortReasons : Abort(reason)
  \/ \E n \in 0..MaxPriorTurns : BuildTranscript(n)
  \/ MemoryFails
  \/ LoopHead
  \/ StreamChunk
  \/ StreamEnd
  \/ \E name \in {"Error", "AbortError"} : StreamFails(name)
  \/ AfterStream
  \/ ToolLoop
  \/ GuardEntry
  \/ ToolReturns
  \/ ToolThrows
  \/ TimerFires
  \/ \E id \in running : AbandonedToolSettles(id)
  \/ ToolResult
  \/ IterationEnd
  \/ AfterLoop
  \/ HandleResponse
  \/ SaveDone
  \/ Catch
  \/ \E text \in {<<>>, <<"plus-answer">>} : FallbackReturns(text)
  \/ FallbackFailsInside
  \/ FallbackThrows

Spec == Init /\ [][Next]_vars

\* ------------------------------------------------------ the guard alone
\* executeSequentialToolCall called with any call, one call after the
\* other, by a caller that keeps the records in toolResults.

\* The number of calls the caller makes.
MaxGuardCalls == 2

SomeArgs == [type |-> "object", text |-> <<"{q}">>]

GuardInputs ==
  {NoCall, [isNull |-> FALSE, name |-> <<>>, args |-> SomeArgs]}
    \cup {[isNull |-> FALSE, name |-> n, args |-> SomeArgs] :
            n \in {<<"doesNotExist">>, <<"getCurrentTime">>,
                   <<"webSearch">>, <<"getFileTree">>}}

GuardInit ==
  /\ pc = "idle"
  /\ aborted = FALSE
  /\ abortReason = "none"
  /\ hasVault \in BOOLEAN
  /\ adapter = NoAdapter
  /\ conversationMessages = <<>>
  /\ iterationHistory = <<>>
  /\ collectedSources = <<>>
  /\ fullAIResponse = <<>>
  /\ iteration = 0
  /\ callIterations = 0
  /\ chatStream = <<>>
  /\ processedChunks = <<>>
  /\ streamer = NewStreamer
  /\ response = <<>>
  /\ toolCalls = <<>>
  /\ callIndex = 0
  /\ toolResults = <<>>
  /\ toolCallMessages = <<>>
  /\ currentAiMessage = <<>>
  /\ streamRequests = 0
  /\ toolCall = NoCall
  /\ record = NoRecord
  /\ invocations = 0
  /\ racing = 0
  /\ running = {}
  /\ abandoned = {}
  /\ timersFired = 0
  /\ lookups = 0
  /\ settled = "none"
  /\ error = "none"
  /\ handleResponseCalls = 0
  /\ fallbackRuns = 0
  /\ fallbackMessage = <<>>
  /\ fallbackResult = <<>>
  /\ handleErrorCalls = 0
  /\ addedMessages = <<>>
  /\ returned = <<>>

\* The caller calls executeSequentialToolCall(call).
GuardCalled(call) ==
  /\ pc = "idle"
  /\ Len(toolResults) < MaxGuardCalls
  /\ toolCall' = call
  /\ pc' = "guardEntry"
  /\ UNCHANGED <<signalVars, hasVault, adapter, loopVars, streamVars, record,
                 invocations, racing, running, abandoned, timersFired,
                 lookups, settled, endVars, currentAiMessage>>

\* The caller receives the record.
GuardReturned ==
  /\ pc = "guardReturn"
  /\ toolResults' = Append(toolResults, record)
  /\ pc' = "idle"
  /\ UNCHANGED <<signalVars, hasVault, adapter, conversationMessages,
                 iterationHistory, collectedSources, fullAIResponse,
                 iteration, callIterations, response, toolCalls, callIndex,
                 toolCallMessages, streamVars, guardVars, endVars,
                 currentAiMessage>>

GuardNext ==
  \/ \E call \in GuardInputs : GuardCalled(call)
  \/ GuardEntry
  \/ ToolReturns
  \/ ToolThrows
  \/ TimerFires
  \/ \E id \in running : AbandonedToolSettles(id)
  \/ GuardReturned

SpecGuard == GuardInit /\ [][GuardNext]_vars

\* ------------------------------------------------ a scripted scenario
\* run with a model that calls localSearch in its first response and
\* webSearch in its second and answers in its third, in one chunk or in
\* several, with tools that return before their timers fire and without
\* cancellation.

\* The responses the scripted model streams in the iteration given.
ScenarioScripts(k) ==
  CASE k = 1 ->
         {<<TextChunk(<<"looking", "\n">>
                        \o CallMarkup("localSearch", "{q}"))>>,
          <<TextChunk(<<"looking", "\n", "<use_tool>", "\n">>),
            TextChunk(<<"<name>", "localSearch", "</name>", "\n",
                        "</use_tool>", "\n">>)>>}
    [] k = 2 ->
         {<<TextChunk(<<"found", "\n">>
                        \o CallMarkup("webSearch", "{q}"))>>,
          <<TextChunk(CallMarkup("webSearch", "{q}")),
            TextChunk(<<"\n", "checking">>)>>}
    [] OTHER ->
         {<<TextChunk(<<"final">>)>>,
          <<TextChunk(<<"final", "\n", "\n", "\n">>),
            TextChunk(<<"answer">>)>>}

ScenarioLoopHead == LoopHeadWith(ScenarioScripts(iteration + 1))

\* A timer fires whose race the tool has won.
LateTimerFires == TimerFires /\ racing # timersFired + 1

ScenarioNext ==
  \/ \E n \in 0..MaxPriorTurns : BuildTranscript(n)
  \/ ScenarioLoopHead
  \/ StreamChunk
  \/ StreamEnd
  \/ AfterStream
  \/ ToolLoop
  \/ GuardEntry
  \/ ToolReturns
  \/ LateTimerFires
  \/ ToolResult
  \/ IterationEnd
  \/ AfterLoop
  \/ HandleResponse
  \/ SaveDone

SpecScenario == Init /\ [][ScenarioNext]_vars

\* ----------------------------------------------- the provenance alone
\* The collection of sources behind each tool call and deduplicateSources
\* at the end of run, for any records of the two search tools.

\* The number of tool calls whose records are collected.
MaxSourceCalls == 2

SearchResults ==
  {<<"[", "docA5", "docB7", "]">>, <<"[", "docA9", "docB3", "]">>,
   <<"[", "docC7", "docA5", "docA9", "]">>, <<"[", "]">>,
   <<"web-result">>}

SourceInputs ==
  [toolName : {<<"localSearch">>, <<"webSearch">>},
   result : SearchResults, success : BOOLEAN]

SourcesInit == GuardInit /\ hasVault

\* A tool call of run ended with the record given.
SourcesCollected(result) ==
  /\ pc = "idle"
  /\ Len(toolResults) < MaxSourceCalls
  /\ toolResults' = Append(toolResults, result)
  /\ collectedSources' =
       CollectSources(collectedSources, result.toolName, result)
  /\ UNCHANGED <<pc, signalVars, hasVault, adapter, conversationMessages,
                 iterationHistory, fullAIResponse, iteration,
                 callIterations, response, toolCalls, callIndex,
                 toolCallMessages, streamVars, guardVars, endVars,
                 currentAiMessage>>

\* run ends: the answer is added with the unique sources.
SourcesDeduplicated ==
  /\ pc = "idle"
  /\ addedMessages' =
       Append(addedMessages,
              [message |-> <<"answer">>,
               sources |-> deduplicateSources(collectedSources),
               isErrorMessage |-> FALSE])
  /\ pc' = "done"
  /\ UNCHANGED <<signalVars, hasVault, adapter, loopVars, streamVars, guardVars,
                 error, handleResponseCalls, fallbackRuns, fallbackMessage,
                 fallbackResult, handleErrorCalls, returned,
                 currentAiMessage>>

SourcesNext ==
  \/ \E result \in SourceInputs : SourcesCollected(result)
  \/ SourcesDeduplicated

SpecSources == SourcesInit /\ [][SourcesNext]_vars

\* ------------------------------------------- the streamer taken alone
\* A ThinkBlockStreamer is given up to MaxChunks chunks, then closed.
MaxChunks == 3

\* A chunk of the scalar shape: content (absent when isString is FALSE)
\* and additional_kwargs.reasoning_content.
ScalarChunk(isString, text, reasoning) ==
  [isArray |-> FALSE, isString |-> isString, text |-> text, parts |-> <<>>,
   reasoning |-> reasoning]

\* A chunk whose content is an array of typed parts.
ArrayChunk(parts) ==
  [isArray |-> TRUE, isString |-> FALSE, text |-> <<>>, parts |-> parts,
   reasoning |-> <<>>]

TextPart(text) == [type |-> "text", text |-> text]
ThinkingPart(thinking) == [type |-> "thinking", text |-> thinking]

\* The chunks a provider may send: both shapes, with and without
\* reasoning, with and without answer text.
StreamerChunks ==
  { ScalarChunk(TRUE, <<"c">>, <<>>),
    ScalarChunk(TRUE, <<>>, <<"a">>),
    ScalarChunk(TRUE, <<>>, <<"b">>),
    ScalarChunk(TRUE, <<"c">>, <<"a">>),
    ScalarChunk(FALSE, <<>>, <<>>),
    ArrayChunk(<<TextPart(<<"c">>)>>),
    ArrayChunk(<<ThinkingPart(<<"a">>)>>),
    ArrayChunk(<<ThinkingPart(<<>>)>>),
    ArrayChunk(<<TextPart(<<"c">>), ThinkingPart(<<"b">>), TextPart(<<"d">>)>>),
    ArrayChunk(<<>>) }

\* The caller gives the streamer the next chunk of the stream.
StreamerProcessChunk(chunk) ==
  /\ pc = "idle"
  /\ Len(processedChunks) < MaxChunks
  /\ streamer' = processChunk(chunk, streamer)
  /\ processedChunks' = Append(processedChunks, chunk)
  /\ UNCHANGED <<pc, signalVars, hasVault, adapter, loopVars, chatStream,
                 streamRequests, guardVars, endVars, currentAiMessage>>

\* The caller closes the streamer and keeps the text it returns.
StreamerClose ==
  /\ pc = "idle"
  /\ streamer' = close(streamer)
  /\ response' = close(streamer).fullResponse
  /\ pc' = "done"
  /\ UNCHANGED <<signalVars, hasVault, adapter, conversationMessages,
                 iterationHistory, collectedSources, fullAIResponse,
                 iteration, callIterations, toolCalls, callIndex,
                 toolResults, toolCallMessages, chatStream, processedChunks,
                 streamRequests, guardVars, endVars, currentAiMessage>>

StreamerNext ==
  \/ \E chunk \in StreamerChunks : StreamerProcessChunk(chunk)
  \/ StreamerClose

SpecStreamer == GuardInit /\ [][StreamerNext]_vars

\* A caller that goes on using a streamer it has closed: it closes it a
\* second time, or gives it one more chunk.
StreamerCloseAgain ==
  /\ pc = "done"
  /\ streamer' = close(streamer)
  /\ pc' = "closedAgain"
  /\ UNCHANGED <<signalVars, hasVault, adapter, loopVars, chatStream,
                 processedChunks, streamRequests, guardVars, endVars,
                 currentAiMessage>>

StreamerChunkAfterClose(chunk) ==
  /\ pc = "done"
  /\ streamer' = processChunk(chunk, streamer)
  /\ processedChunks' = Append(processedChunks, chunk)
  /\ pc' = "reused"
  /\ UNCHANGED <<signalVars, hasVault, adapter, loopVars, chatStream,
                 streamRequests, guardVars, endVars, currentAiMessage>>

StreamerReuseNext ==
  \/ StreamerNext
  \/ StreamerCloseAgain
  \/ \E chunk \in StreamerChunks : StreamerChunkAfterClose(chunk)

SpecStreamerReuse == GuardInit /\ [][StreamerReuseNext]_vars


\* ---------------------------------------------- the codec taken alone
\* The model streams up to MaxSegments chunks of text; the response the
\* streamer returns is decoded and stripped as run and the display do.
MaxSegments == 3

\* The chunks of text a model may stream: plain text, whole call
\* occurrences (well formed, with malformed arguments, with a padded name
\* and no arguments, with an empty, blank or missing name), an opening tag
\* cut in two by the chunking, and code fences.
CodecSegments ==
  { <<"a", "\n">>, <<"\n", "b">>, <<"\n">>,
    CallMarkup("localSearch", "{q}"),
    CallMarkup("webSearch", "{bad"),
    <<"<use_tool>", "<name>", " ", "doesNotExist", " ", "</name>",
      "</use_tool>">>,
    <<"<use_tool>", "<name>", "</name>", "<args>", "{q}", "</args>",
      "</use_tool>">>,
    <<"<use_tool>", "<name>", " ", "</name>", "</use_tool>">>,
    <<"<use_tool>", "<args>", "{q}", "</args>", "</use_tool>">>,
    <<"<use_">>,
    <<"tool>", "<name>", "webSearch", "</name>", "</use_tool>">>,
    <<Fence>>,
    <<Fence, "js", "\n", Fence>>,
    <<Fence, "tool_code", "\n", "a", "\n", Fence>> }

CodecInit == GuardInit /\ hasVault

\* for await (const chunk of chatStream) streamer.processChunk(chunk)
CodecChunk(text) ==
  /\ pc = "idle"
  /\ Len(processedChunks) < MaxSegments
  /\ streamer' = processChunk(TextChunk(text), streamer)
  /\ processedChunks' = Append(processedChunks, TextChunk(text))
  /\ UNCHANGED <<pc, signalVars, hasVault, adapter, loopVars, chatStream,
                 streamRequests, guardVars, endVars, currentAiMessage>>

\* The stream ends: the response is decoded, stripped for the answer and
\* stripped with tool indicators for the display.
CodecDecodes ==
  /\ pc = "idle"
  /\ LET text == close(streamer).fullResponse
     IN  /\ response' = text
         /\ toolCalls' = parseXMLToolCalls(text)
         /\ fullAIResponse' = stripToolCallXML(text)
         /\ currentAiMessage' = xmlParsing_stripToolCallXML(text, TRUE)
  /\ pc' = "done"
  /\ UNCHANGED <<signalVars, hasVault, adapter, conversationMessages,
                 iterationHistory, collectedSources, iteration,
                 callIterations, callIndex, toolResults, toolCallMessages,
                 streamVars, guardVars, endVars>>

CodecNext ==
  \/ \E text \in CodecSegments : CodecChunk(text)
  \/ CodecDecodes

SpecCodec == CodecInit /\ [][CodecNext]_vars


\* ------------------------------------------------ the model adapters
\* A model identifier is a text of atoms such as "claude", "-3-7-sonnet";
\* a chat model is [modelName, model], the empty text standing for a field
\* that is undefined or "".

\* String.prototype.includes
Includes(text, sub) ==
  \E i \in 1..(Len(text) - Len(sub) + 1) :
    SubSeq(text, i, i + Len(sub) - 1) = sub

LowerToken(token) ==
  CASE token = "GPT" -> "gpt"
    [] token = "Claude" -> "claude"
    [] token = "Find" -> "find"
    [] OTHER -> token

\* String.prototype.toLowerCase
ToLowerCase(text) == [i \in 1..Len(text) |-> LowerToken(text[i])]

\* createAdapter, were the Claude models looked for first.
createAdapter_ClaudeFirst(model) ==
  LET modelName == ToLowerCase(IF model.modelName # <<>>
                               THEN model.modelName ELSE model.model)
      class == IF Includes(modelName, <<"claude">>) THEN "ClaudeModelAdapter"
               ELSE IF Includes(modelName, <<"gpt">>) THEN "GPTModelAdapter"
               ELSE IF Includes(modelName, <<"gemini">>)
               THEN "GeminiModelAdapter"
               ELSE "BaseModelAdapter"
  IN  [class |-> class, modelName |-> modelName]

\* ModelAdapterFactory.createAdapter
createAdapter(model) ==
  LET modelName == ToLowerCase(IF model.modelName # <<>>
                               THEN model.modelName ELSE model.model)
      class == IF Includes(modelName, <<"gpt">>) THEN "GPTModelAdapter"
               ELSE IF Includes(modelName, <<"claude">>)
               THEN "ClaudeModelAdapter"
               ELSE IF Includes(modelName, <<"gemini">>)
               THEN "GeminiModelAdapter"
               ELSE IF Includes(modelName, <<"copilot-plus">>)
               THEN "BaseModelAdapter"
               ELSE "BaseModelAdapter"
  IN  [class |-> class, modelName |-> modelName]

\* ClaudeModelAdapter.isThinkingModel
isThinkingModel(modelName) ==
  \/ Includes(modelName, <<"claude", "-3-7-sonnet">>)
  \/ Includes(modelName, <<"claude", "-sonnet-4">>)
  \/ Includes(modelName, <<"claude", "-3.7-sonnet">>)
  \/ Includes(modelName, <<"claude", "-4-sonnet">>)

\* needsSpecialHandling, were every Claude model to need it.
needsSpecialHandling_EveryClaude(a) ==
  a.class \in {"GPTModelAdapter", "ClaudeModelAdapter"}

needsSpecialHandling(a) ==
  CASE a.class = "GPTModelAdapter" -> TRUE
    [] a.class = "ClaudeModelAdapter" -> isThinkingModel(a.modelName)
    [] OTHER -> FALSE

Reminder ==
  <<"\n", "\n",
    "REMINDER: Use the <use_tool> XML format to call the localSearch tool.">>

enhanceUserMessage(a, message, requiresTools) ==
  IF a.class = "GPTModelAdapter" /\ requiresTools
       /\ (\/ Includes(ToLowerCase(message), <<"find">>)
           \/ Includes(ToLowerCase(message), <<"search">>)
           \/ Includes(ToLowerCase(message), <<"my", " ", "notes">>))
  THEN message \o Reminder
  ELSE message

\* BaseModelAdapter.enhanceSystemPrompt: the base prompt, the fixed text up
\* to "Available tools:", the tool descriptions, the fixed rest.
BaseSystemPrompt(basePrompt, toolDescriptions) ==
  basePrompt \o <<"\n", "\n", "# Autonomous Agent Mode ... Available tools:",
                  "\n">>
    \o toolDescriptions
    \o <<"\n", "\n", "CRITICAL: For localSearch ... tool calls.">>

gptSpecificSection ==
  <<"\n", "\n", "CRITICAL FOR GPT MODELS: ... FINAL REMINDER FOR GPT MODELS">>

thinkingModelSection ==
  <<"\n", "\n", "IMPORTANT FOR CLAUDE THINKING MODELS: ...">>

\* enhanceSystemPrompt of the class of the adapter a.
enhanceSystemPrompt(a, basePrompt, toolDescriptions) ==
  LET baseSystemPrompt == BaseSystemPrompt(basePrompt, toolDescriptions)
  IN  CASE a.class = "GPTModelAdapter" ->
             baseSystemPrompt \o gptSpecificSection
        [] a.class = "ClaudeModelAdapter" ->
             IF isThinkingModel(a.modelName)
             THEN baseSystemPrompt \o thinkingModelSection
             ELSE baseSystemPrompt
        [] OTHER -> baseSystemPrompt

\* Identifiers hold up to MaxNameParts atoms.
MaxNameParts == 2

NameAtoms ==
  {"gpt", "GPT", "claude", "Claude", "gemini", "copilot-plus",
   "-3-7-sonnet", "-sonnet-4", "llama"}

ModelNames ==
  UNION {[1..n -> NameAtoms] : n \in 0..MaxNameParts}

\* The chat models: modelName set or not, model set or not.
ChatModels ==
  {[modelName |-> name, model |-> other] :
     name \in ModelNames, other \in {<<>>, <<"gpt">>, <<"llama">>}}

\* The user messages: with and without the words the GPT adapter looks for
\* ("research" holds "search").
AdapterMessages ==
  {UserMessage, <<"Find", " ", "a">>, <<"re", "search">>,
   <<"a", " ", "my", " ", "notes">>}

\* ModelAdapterFactory.createAdapter(model) is called.
AdapterCreated(model) ==
  /\ pc = "idle"
  /\ adapter' = createAdapter(model)
  /\ pc' = "adapter"
  /\ UNCHANGED <<signalVars, hasVault, loopVars, streamVars, guardVars,
                 endVars, currentAiMessage>>

\* The user message is enhanced by the adapter and put in the transcript.
AdapterEnhancesUserMessage(message, requiresTools) ==
  /\ pc = "adapter"
  /\ conversationMessages' =
       <<[role |-> "user",
          content |-> enhanceUserMessage(adapter, message, requiresTools)]>>
  /\ pc' = "done"
  /\ UNCHANGED <<signalVars, hasVault, adapter, iterationHistory,
                 collectedSources, fullAIResponse, iteration, callIterations,
                 response, toolCalls, callIndex, toolResults,
                 toolCallMessages, streamVars, guardVars, endVars,
                 currentAiMessage>>

\* The base prompts and the tool descriptions a caller may pass; one
\* description quotes the section a thinking model is given.
BasePrompts == {<<>>, <<"You are Obsidian Copilot.">>}

ToolDescriptions ==
  {<<>>, <<"<localSearch>", "\n", "<webSearch>">>, thinkingModelSection}

\* The system prompt is enhanced by the adapter and put in the transcript.
AdapterEnhancesSystemPrompt(basePrompt, toolDescriptions) ==
  /\ pc = "adapter"
  /\ conversationMessages' =
       <<[role |-> "system",
          content |-> enhanceSystemPrompt(adapter, basePrompt,
                                          toolDescriptions)]>>
  /\ pc' = "prompted"
  /\ UNCHANGED <<signalVars, hasVault, adapter, iterationHistory,
                 collectedSources, fullAIResponse, iteration, callIterations,
                 response, toolCalls, callIndex, toolResults,
                 toolCallMessages, streamVars, guardVars, endVars,
                 currentAiMessage>>

AdapterNext ==
  \/ \E model \in ChatModels : AdapterCreated(model)
  \/ \E basePrompt \in BasePrompts, toolDescriptions \in ToolDescriptions :
       AdapterEnhancesSystemPrompt(basePrompt, toolDescriptions)
  \/ \E message \in AdapterMessages, requiresTools \in BOOLEAN :
       AdapterEnhancesUserMessage(message, requiresTools)

SpecAdapter == GuardInit /\ [][AdapterNext]_vars


\* ------------------------------------------ the agent loop under fairness

\* What the model may stream in iteration k of a run followed to its end:
\* a final answer, nothing at all, or one call: of webSearch, which may
\* take longer than the timer, in the odd iterations, and of localSearch,
\* which may throw, in the even ones.
LiveScripts(k) ==
  {<<TextChunk(<<"a">>)>>, <<>>,
   IF k % 2 = 1
   THEN <<TextChunk(<<"c", "\n">>), TextChunk(CallMarkup("webSearch", "{q}"))>>
   ELSE <<TextChunk(CallMarkup("localSearch", "{}"))>>}

LiveLoopHead == LoopHeadWith(LiveScripts(iteration + 1))

\* A step of run itself, or the settling of what run awaits: the memory,
\* the stream, the race of a tool against its timer, the fallback runner.
RunStep ==
  \/ \E n \in 0..MaxPriorTurns : BuildTranscript(n)
  \/ MemoryFails
  \/ LiveLoopHead
  \/ StreamChunk
  \/ StreamEnd
  \/ \E name \in {"Error", "AbortError"} : StreamFails(name)
  \/ AfterStream
  \/ ToolLoop
  \/ GuardEntry
  \/ ToolReturns
  \/ ToolThrows
  \/ TimerFires
  \/ ToolResult
  \/ IterationEnd
  \/ AfterLoop
  \/ HandleResponse
  \/ SaveDone
  \/ Catch
  \/ \E text \in {<<>>, <<"plus-answer">>} : FallbackReturns(text)
  \/ FallbackFailsInside
  \/ FallbackThrows

LiveNext ==
  \/ \E reason \in AbortReasons : Abort(reason)
  \/ \E id \in running : AbandonedToolSettles(id)
  \/ RunStep

\* JavaScript runs the code between two awaits to its end, every stream
\* ends or fails, every race is settled by the tool or by the timer, and
\* the memory and the fallback runner answer: a step of run that stays
\* possible is taken.  The user need not abort and an abandoned tool need
\* not settle.
SpecLive == Init /\ [][LiveNext]_vars /\ WF_vars(RunStep)


\* ------------------------------------------------------------ properties

\* sub occurs in text as a contiguous run of tokens.
Occurs(sub, text) ==
  \E i \in 1..(Len(text) - Len(sub) + 1) :
    SubSeq(text, i, i + Len(sub) - 1) = sub

\* The position of the current user message in the transcript: the length
\* of the transcript as run built it.
InitialLength ==
  CHOOSE i \in 1..Len(conversationMessages) :
    conversationMessages[i] = [role |-> "user", content |-> UserMessage]

\* The steps of run behind the loop.
BehindLoop == {"afterLoop", "handleResponse", "awaitSave", "done"}

\* C1: the loop issues at most 4 model stream requests; when each of the 4
\* responses decoded to at least one tool call, run ends without a 5th
\* request and its answer is the blank-line join of the iteration history
\* of all four iterations, which is not empty.
C1_MaxIterations ==
  /\ streamRequests <= maxIterations
  /\ (pc = "done" /\ callIterations = maxIterations)
       => /\ streamRequests = maxIterations
          /\ returned = Join(iterationHistory, BlankLine)
          /\ returned # <<>>

\* C2: a response that decodes to zero tool calls ends the loop in that
\* iteration: the answer is the blank-line join of the history so far
\* followed by the stripped response, and from then on no tool is invoked,
\* the transcript is not extended and no model request is issued.
C2_ZeroCallsTerminate ==
  [][/\ (pc = "afterStream" /\ parseXMLToolCalls(response) = <<>>)
          => /\ pc' = "afterLoop"
             /\ fullAIResponse' =
                  Join(Append(iterationHistory, stripToolCallXML(response)),
                       BlankLine)
     /\ (pc \in BehindLoop)
          => /\ pc' \in BehindLoop
             /\ UNCHANGED <<conversationMessages, invocations,
                            streamRequests>>]_vars

\* C3: the transcript is append-only; a step that extends the transcript
\* run built appends the assistant message with the raw response and then
\* the user message with the records of the iteration's calls in call
\* order; every iteration that decoded a call has appended its two messages
\* when run ends; every model request is made on a transcript that ends
\* with a user message.
C3_TranscriptAppendOnly ==
  /\ [][/\ Len(conversationMessages') >= Len(conversationMessages)
        /\ SubSeq(conversationMessages', 1, Len(conversationMessages))
             = conversationMessages
        /\ (conversationMessages # <<>>
              /\ conversationMessages' # conversationMessages)
             => /\ conversationMessages' =
                     conversationMessages
                       \o <<[role |-> "assistant", content |-> response],
                            [role |-> "user",
                             content |->
                               ToolResultsForConversation(toolResults)]>>
                /\ Len(toolResults) <= Len(toolCalls)
                /\ \A i \in 1..Len(toolResults) :
                     toolResults[i].toolName = toolCalls[i].name]_vars
  /\ [](pc = "awaitStream"
          => conversationMessages[Len(conversationMessages)].role = "user")
  /\ []((pc = "done" /\ conversationMessages # <<>>)
          => Len(conversationMessages) = InitialLength + 2 * callIterations)

\* C4: executeSequentialToolCall returns a record whose result is a string,
\* and the record tells success exactly when the tool was found and
\* returned a value before the timer fired.
C4_GuardNeverThrows ==
  pc = "guardReturn"
    => /\ record.result # UndefinedValue
       /\ record.success
            <=> (FindTool(getAvailableTools(hasVault), toolCall.name)
                   /\ settled = "returned")

\* The texts that left the guard or reached the model: the results of the
\* records and the contents of the transcript.
ResultTexts ==
  {record.result}
    \cup {toolResults[i].result : i \in 1..Len(toolResults)}
    \cup {conversationMessages[i].content :
            i \in 1..Len(conversationMessages)}

\* The record of the race just settled is the one its winner determines.
RaceRecord ==
  pc = "guardReturn"
    => /\ settled = "timer"
            => record = [toolName |-> toolCall.name,
                         result |-> <<"Error: ">> \o TimeoutMessage,
                         success |-> FALSE]
       /\ settled = "returned"
            => record \in {ValueRecord(toolCall, value) :
                             value \in ToolValues(toolCall.name,
                                                  invocations)}
       /\ settled = "threw"
            => (~record.success /\ record.toolName = toolCall.name)

\* No value of an invocation the guard abandoned is in a record or in the
\* transcript.
AbandonedValuesDiscarded ==
  \A id \in abandoned :
    \A text \in ResultTexts : ~Contains(text, ValueToken(id))

\* C5: the first of tool and timer to settle alone determines the record:
\* a timer that wins gives a failed record with the timeout message, and
\* the value of the abandoned tool reaches no record and no transcript
\* message; a tool that wins gives the record of its outcome, and a timer
\* that fires after its race is settled, like a tool that settles after its
\* race is lost, changes nothing of the run.
C5_RaceFirstSettledWins ==
  /\ [](RaceRecord /\ AbandonedValuesDiscarded)
  /\ [][(timersFired' # timersFired /\ racing # timersFired')
          => UNCHANGED <<pc, signalVars, loopVars, streamVars, toolCall,
                         record, invocations, racing, running, abandoned,
                         settled, endVars, currentAiMessage>>]_vars
  /\ [][(running' # running /\ racing' = racing /\ invocations' = invocations)
          => UNCHANGED <<pc, signalVars, loopVars, streamVars, toolCall,
                         record, abandoned, settled, endVars,
                         currentAiMessage>>]_vars

\* A timer won a race and its tool settled afterwards, a tool won a race
\* and its timer fired afterwards, and the records reached the transcript.
C5_Witness ==
  /\ pc = "done"
  /\ \E id \in abandoned : id \notin running
  /\ timersFired = invocations
  /\ \E text \in ResultTexts : Occurs(TimeoutMessage, text)
  /\ \E text \in ResultTexts : Contains(text, "docA5")

\* The calls of an iteration run in the order of the response: while the
\* guard works on call i the records of the calls before it, and no other,
\* are pushed, and an invocation starts only when the guard awaits none.
CallsInOrder ==
  /\ [](pc \in {"guardEntry", "awaitTool", "guardReturn"}
          => /\ callIndex \in 1..Len(toolCalls)
             /\ toolCall.name = toolCalls[callIndex].name
             /\ Len(toolResults) = callIndex - 1
             /\ \A i \in 1..Len(toolResults) :
                  toolResults[i].toolName = toolCalls[i].name)
  /\ [][invocations' # invocations
          => (racing = 0 /\ pc = "guardEntry" /\ racing' = invocations')]_vars

\* C6 as stated: the calls run in order, and at no time is more than one
\* tool invocation in flight.
C6_OneInvocationInFlight ==
  CallsInOrder /\ [](Cardinality(running) <= 1)

\* C6, amended: the calls run in order, and at no time is more than one
\* invocation in flight that the guard has not abandoned to its timer; the
\* invocations in flight besides the awaited one are abandoned ones.
C6_OneAwaitedInvocation ==
  /\ CallsInOrder
  /\ [](/\ Cardinality(running \ abandoned) <= 1
        /\ running \ abandoned \subseteq {racing})

\* The guard awaits the second invoked call of an iteration while the first,
\* abandoned to its timer, is still in flight.
C6_Witness ==
  /\ pc = "awaitTool"
  /\ Len(toolResults) >= 2
  /\ racing \in running
  /\ Cardinality(running) >= 2

\* C7: for a call without a name the guard returns a failed record without
\* reading the registry or invoking a tool; for a name that is not in the
\* registry it returns a failed record without invoking a tool, and the
\* result holds the name and the names of all available tools.
C7_InvalidAndUnknownCalls ==
  [][pc = "guardEntry"
       => /\ (toolCall.isNull \/ toolCall.name = <<>>)
               => /\ pc' = "guardReturn"
                  /\ ~record'.success
                  /\ UNCHANGED <<lookups, invocations, running>>
          /\ (~toolCall.isNull /\ toolCall.name # <<>>
                /\ ~FindTool(getAvailableTools(hasVault), toolCall.name))
               => /\ pc' = "guardReturn"
                  /\ ~record'.success
                  /\ UNCHANGED <<invocations, running>>
                  /\ Occurs(toolCall.name, record'.result)
                  /\ \A i \in 1..Len(getAvailableTools(hasVault)) :
                       Occurs(getAvailableTools(hasVault)[i],
                              record'.result)]_vars

\* The guard answered a call of a tool that is not available without a
\* vault, and then a call without a name, and invoked nothing.
C7_Witness ==
  /\ pc = "guardReturn"
  /\ ~hasVault
  /\ toolCall.name = <<>>
  /\ ~record.success
  /\ Len(toolResults) = 1
  /\ toolResults[1].toolName = <<"getFileTree">>
  /\ ~toolResults[1].success
  /\ lookups = 1
  /\ invocations = 0

\* A record of the iteration in progress tells a failure.
SomeCallFailed == \E i \in 1..Len(toolResults) : ~toolResults[i].success

\* C8: without cancellation a failed call does not stop the iteration: the
\* remaining calls are given to the guard, the iteration ends with as many
\* records as decoded calls, the failed records are in the user message it
\* appends, and the next iteration follows.
C8_FailedCallContinues ==
  [][(~aborted /\ SomeCallFailed)
       => /\ (pc = "toolLoop" /\ callIndex <= Len(toolCalls))
               => pc' = "guardEntry"
          /\ pc = "iterationEnd"
               => /\ Len(toolResults) = Len(toolCalls)
                  /\ pc' = "loopHead"
                  /\ \A i \in 1..Len(toolResults) :
                       Occurs(ToolResultBlock(toolResults[i]),
                              conversationMessages'
                                [Len(conversationMessages')].content)]_vars

\* C9: whatever the arguments of a decoded call are, the loop gives the call
\* to the guard and goes on; the tool loop never throws.
C9_ArgsNeverFallback ==
  [][(pc = "toolLoop" /\ callIndex <= Len(toolCalls) /\ ~aborted)
       => /\ pc' = "guardEntry"
          /\ toolCall'.name = toolCalls[callIndex].name
          /\ toolCall'.args = toolCalls[callIndex].args
          /\ UNCHANGED <<error, fallbackRuns>>]_vars

\* C10: an exception caught while the signal is not set starts the one
\* fallback run, with the user message of run and the same signal; run
\* returns what the fallback run returns, and the answer of the loop is not
\* given to handleResponse.
C10_FallbackOnException ==
  /\ [][(pc = "catch" /\ ~aborted)
          => /\ pc' = "awaitFallback"
             /\ fallbackRuns' = fallbackRuns + 1
             /\ fallbackMessage' = UserMessage
             /\ UNCHANGED signalVars]_vars
  /\ [](/\ fallbackRuns <= 1
        /\ fallbackRuns = 1 => handleResponseCalls = 0
        /\ (pc = "done" /\ fallbackRuns = 1 /\ handleErrorCalls = 0)
             => returned = fallbackResult)
  /\ [][(pc = "awaitFallback" /\ pc' = "done" /\ handleErrorCalls' = 0)
          => \E text \in {<<>>, <<"plus-answer">>} :
               /\ returned' = PlusRunResult(text)
               /\ fallbackResult' = returned']_vars

\* The tool loop threw with text in the iteration history, and run
\* returned the answer of the fallback run.
C10_Witness ==
  /\ pc = "done"
  /\ error = "TypeError"
  /\ fallbackRuns = 1
  /\ Join(iterationHistory, BlankLine) # <<>>
  /\ returned = <<"plus-answer">>
  /\ handleResponseCalls = 0

\* The error messages shown to the user.
ErrorMessages ==
  {i \in 1..Len(addedMessages) : addedMessages[i].isErrorMessage}

\* The fallback run failed: in its own try block, or by throwing.
FallbackFailed == error \in {"PlusError", "FallbackError"}

\* C11: a failure of the fallback run is shown to the user by one call of
\* handleError, and ends the run: no second fallback run is made, the loop
\* issues no further model request, run returns "" and nothing follows.
C11_FallbackFailureTerminal ==
  /\ [](/\ handleErrorCalls <= 1
        /\ fallbackRuns <= 1
        /\ Cardinality(ErrorMessages) = handleErrorCalls
        /\ FallbackFailed
             => /\ pc = "done"
                /\ handleErrorCalls = 1
                /\ fallbackRuns = 1
                /\ handleResponseCalls = 0
                /\ returned = <<>>)
  /\ [][FallbackFailed
          => UNCHANGED <<pc, streamRequests, iteration, fallbackRuns,
                         handleErrorCalls, addedMessages, returned,
                         conversationMessages, invocations>>]_vars

\* The fallback run, started behind a second iteration, threw, and the
\* error was shown.
C11_Witness ==
  /\ pc = "done"
  /\ error = "FallbackError"
  /\ streamRequests >= 2
  /\ handleErrorCalls = 1
  /\ Cardinality(ErrorMessages) = 1

\* C12: while the abort signal is set, and when the exception caught is an
\* AbortError, handleError is not called, no error message is shown and no
\* fallback run is started.
C12_CancellationSilent ==
  [][(aborted \/ error' = "AbortError")
       => UNCHANGED <<handleErrorCalls, fallbackRuns, ErrorMessages>>]_vars

\* C13: while the abort signal is set the loop starts no work: it issues no
\* model request, takes no chunk from the stream (the streamer is at most
\* closed), invokes no tool, and leaves the tool loop at its next call.
C13_NoNewWorkAfterAbort ==
  [][aborted
       => /\ UNCHANGED <<streamRequests, chatStream, invocations, lookups,
                         fallbackRuns>>
          /\ running' \subseteq running
          /\ streamer'.fullResponse
               \in {streamer.fullResponse, close(streamer).fullResponse}
          /\ pc = "loopHead" => pc' = "afterLoop"
          /\ pc = "toolLoop" => pc' = "iterationEnd"]_vars

\* The signal was set while the second of three calls ran, the first one
\* naming an unknown tool: the tool loop is left, the third call not invoked.
C13_Witness ==
  /\ aborted
  /\ pc = "iterationEnd"
  /\ Len(toolCalls) = 3
  /\ Len(toolResults) = 2
  /\ invocations = 1

\* C14: when the loop has seen the abort signal set (before a model
\* request, between two chunks or before a tool call) it appends no message
\* to the transcript it has built.  Only the end of an iteration whose tool
\* loop ran to its end has not seen a signal that is set.
C14_NoAppendAfterAbort ==
  [][(aborted /\ conversationMessages # <<>>
        /\ (pc # "iterationEnd" \/ callIndex <= Len(toolCalls)))
       => UNCHANGED conversationMessages]_vars

\* C15: a run cancelled with another reason than new chat, and ended by
\* the loop itself, returns the text accumulated: the join of the iteration
\* history, with the stripped text of the response in progress when that is
\* not part of the history yet; the answer is empty only if that text is.
C15_PartialAnswerKept ==
  (pc = "done" /\ aborted /\ abortReason # "new-chat" /\ fallbackRuns = 0)
    => /\ returned \in {Join(iterationHistory, BlankLine),
                        Join(Append(iterationHistory,
                                    stripToolCallXML(response)), BlankLine)}
       /\ Join(iterationHistory, BlankLine) # <<>> => returned # <<>>

\* C16: a run that finds the signal set for a new chat when it ends drops
\* the partial text: nothing is saved, the display is cleared, and run
\* returns "".
C16_NewChatReturnsEmpty ==
  [][(aborted /\ abortReason = "new-chat"
        /\ pc \in {"handleResponse", "awaitFallback"} /\ pc' = "done")
       => /\ returned' = <<>>
          /\ currentAiMessage' = <<>>
          /\ UNCHANGED addedMessages]_vars

\* The sources of the successful localSearch records among the first n
\* records, in the order of the records.
RECURSIVE SearchSources(_)
SearchSources(n) ==
  IF n = 0 THEN <<>>
  ELSE SearchSources(n - 1)
         \o (IF toolResults[n].toolName = <<"localSearch">>
                  /\ toolResults[n].success
             THEN SourcesOf(toolResults[n].result) ELSE <<>>)

\* The list out holds each title of the list all once, with the highest
\* score all has for it, and no other title, sorted by score downwards.
IsProvenanceOf(out, all) ==
  /\ \A i, j \in 1..Len(out) : i < j => /\ out[i].title # out[j].title
                                        /\ out[i].score >= out[j].score
  /\ \A i \in 1..Len(out) :
       /\ \E k \in 1..Len(all) : all[k] = out[i]
       /\ \A k \in 1..Len(all) :
            all[k].title = out[i].title => all[k].score <= out[i].score
  /\ \A k \in 1..Len(all) : \E i \in 1..Len(out) : out[i].title = all[k].title

\* C17: the provenance list of the answer holds each title once, with the
\* highest score collected for it, sorted by score in non-increasing
\* order, and its entries are those of the successful localSearch records
\* of all calls of the run.
C17_ProvenanceDeduplicated ==
  \A m \in 1..Len(addedMessages) :
    IsProvenanceOf(addedMessages[m].sources, SearchSources(Len(toolResults)))

\* Two successful searches gave the title A three times, with the scores
\* 5, 5 and 9, and the titles B and C with the same score.
C17_Witness ==
  /\ pc = "done"
  /\ Len(toolResults) = 2
  /\ toolResults[1] = [toolName |-> <<"localSearch">>,
                       result |-> <<"[", "docA5", "docB7", "]">>,
                       success |-> TRUE]
  /\ toolResults[2] = [toolName |-> <<"localSearch">>,
                       result |-> <<"[", "docC7", "docA5", "docA9", "]">>,
                       success |-> TRUE]
  /\ addedMessages[1].sources
       = <<[title |-> "A", score |-> 9], [title |-> "B", score |-> 7],
           [title |-> "C", score |-> 7]>>

\* The stripped text of the response of the first and of the second
\* iteration, read from the transcript, and of the third.
ScenarioTexts ==
  <<stripToolCallXML(conversationMessages[InitialLength + 1].content),
    stripToolCallXML(conversationMessages[InitialLength + 3].content),
    stripToolCallXML(response)>>

\* What the scenario gives besides the answer: three model requests, two
\* tool invocations, and the two documents of the search as the provenance
\* list, the higher score first.
ScenarioCounts ==
  /\ streamRequests = 3
  /\ invocations = 2
  /\ Len(conversationMessages) = InitialLength + 4
  /\ Len(addedMessages) = 1
  /\ addedMessages[1].message = returned
  /\ addedMessages[1].sources
       = <<[title |-> "B", score |-> 7], [title |-> "A", score |-> 5]>>

\* C18 as stated: the scripted run makes three requests and two
\* invocations, its answer is made of the stripped texts of the three
\* iterations in their order and of nothing else, and the provenance list
\* holds the two documents of the search.
C18_ScenarioThreeSegments ==
  pc = "done"
    => /\ ScenarioCounts
       /\ returned \in {Flatten(ScenarioTexts),
                        Join(ScenarioTexts, BlankLine)}

\* C18, amended: the answer is the blank-line join of five segments: the
\* stripped text of iteration 1, the progress marker of its localSearch
\* call, the stripped text of iteration 2, the progress marker of its
\* webSearch call, and the stripped text of iteration 3.
C18_ScenarioWithMarkers ==
  pc = "done"
    => /\ ScenarioCounts
       /\ \A k \in 1..3 : ScenarioTexts[k] # <<>>
       /\ returned =
            Join(<<ScenarioTexts[1], ToolCallingMessage(<<"localSearch">>),
                   ScenarioTexts[2], ToolCallingMessage(<<"webSearch">>),
                   ScenarioTexts[3]>>, BlankLine)

\* The scripted run ended, its second and third responses having come in
\* two chunks each.
C18_Witness ==
  /\ pc = "done"
  /\ ScenarioTexts = <<<<"looking">>, <<"checking">>,
                       <<"final", "\n", "\n", "answer">>>>
  /\ Len(addedMessages) = 1

RECURSIVE Count(_, _)
\* How many times the token occurs in the text.
Count(token, text) ==
  IF text = <<>> THEN 0
  ELSE (IF Head(text) = token THEN 1 ELSE 0) + Count(token, Tail(text))

\* The chunk carries reasoning content: a thinking part, or
\* reasoning_content that is not empty.
CarriesReasoning(chunk) ==
  \/ chunk.reasoning # <<>>
  \/ \E i \in 1..Len(chunk.parts) : chunk.parts[i].type = "thinking"

LastProcessed == processedChunks[Len(processedChunks)]

\* C19: for any sequence of chunks of either shape, with or without
\* reasoning, given to processChunk and followed by close(), the text
\* close() returns holds as many opening as closing markers put in by the
\* streamer (no chunk text holds a marker); and after a processChunk call
\* on a chunk that carries no reasoning content no block is open.
C19_MarkersBalanced ==
  /\ pc = "done"
       => Count("<think>", response) = Count("</think>", response)
  /\ (pc = "idle" /\ processedChunks # <<>>
        /\ ~CarriesReasoning(LastProcessed))
       => ~streamer.hasOpenThinkBlock

\* Reasoning, an answer and reasoning again, then close(): two blocks were
\* opened, the first one closed by the answer chunk and the second one, open
\* behind the last chunk, by close().
C19_Witness ==
  /\ pc = "done"
  /\ Len(processedChunks) = 3
  /\ CarriesReasoning(processedChunks[1])
  /\ ~CarriesReasoning(processedChunks[2])
  /\ CarriesReasoning(LastProcessed)
  /\ streamer.hasOpenThinkBlock
  /\ Count("<think>", response) = 2

\* The chunk holds reasoning text and nothing else.
ReasoningOnly(chunk) ==
  IF chunk.isArray
  THEN Len(chunk.parts) = 1 /\ chunk.parts[1].type = "thinking"
         /\ chunk.parts[1].text # <<>>
  ELSE chunk.reasoning # <<>> /\ chunk.text = <<>>

\* The chunk holds answer text and nothing else.
AnswerOnly(chunk) ==
  IF chunk.isArray
  THEN Len(chunk.parts) = 1 /\ chunk.parts[1].type = "text"
         /\ chunk.parts[1].text # <<>>
  ELSE chunk.reasoning = <<>> /\ chunk.isString /\ chunk.text # <<>>

ChunkText(chunk) ==
  IF chunk.isArray THEN chunk.parts[1].text
  ELSE IF chunk.reasoning # <<>> THEN chunk.reasoning ELSE chunk.text

\* The reasoning text of the chunks before the last one, concatenated.
ReasoningBefore ==
  Flatten([i \in 1..(Len(processedChunks) - 1)
             |-> ChunkText(processedChunks[i])])

\* C20: a fresh streamer given n >= 1 reasoning chunks and then a chunk of
\* answer text alone holds one opening marker, the concatenated reasoning
\* text, one closing marker right behind it, and the answer text behind the
\* closing marker (the opening marker with or without the line break the
\* streamer puts before it).
C20_ReasoningThenAnswer ==
  (/\ pc = "idle"
   /\ Len(processedChunks) >= 2
   /\ \A i \in 1..(Len(processedChunks) - 1) :
        ReasoningOnly(processedChunks[i])
   /\ AnswerOnly(LastProcessed))
    => \E opening \in {<<"<think>">>, <<"\n", "<think>">>} :
         streamer.fullResponse
           = opening \o ReasoningBefore \o <<"</think>">>
               \o ChunkText(LastProcessed)

\* The text without the markers the streamer puts in (no chunk text of
\* StreamerChunks holds a marker or a line break).
WithoutMarkers(text) ==
  SelectSeq(text, LAMBDA token : token \notin {"\n", "<think>", "</think>"})

\* The answer and reasoning text the chunk carries, in part order (for the
\* scalar shape: content, then reasoning_content).
EmittedText(chunk) ==
  IF chunk.isArray
  THEN Flatten([i \in 1..Len(chunk.parts) |-> chunk.parts[i].text])
  ELSE chunk.text \o chunk.reasoning

\* C21: the streamer loses no text: the output buffer, the markers left
\* out, is the text of the answer parts and reasoning parts of the chunks
\* processed so far, in chunk order and part order; so also for a chunk
\* whose parts mix answer and reasoning.
C21_NoTextLost ==
  pc = "idle"
    => WithoutMarkers(streamer.fullResponse)
         = Flatten([i \in 1..Len(processedChunks)
                      |-> EmittedText(processedChunks[i])])

\* The texts of the chunks the model streamed, in order.
Segments == [i \in 1..Len(processedChunks) |-> processedChunks[i].text]

\* The segment is a whole call occurrence.
IsOccurrence(segment) ==
  segment[1] = "<use_tool>" /\ segment[Len(segment)] = "</use_tool>"

\* The segment holds no part of a delimiter of a call occurrence.
IsFiller(segment) ==
  \A i \in 1..Len(segment) :
    segment[i] \notin {"<use_tool>", "</use_tool>", "<use_", "tool>"}

\* The name field of an occurrence, trimmed (empty when there is none).
NameOf(segment) == Trim(FieldMatch(segment, "<name>", "</name>").group)

\* The occurrence is well formed: its name is not empty.
IsWellFormed(segment) == IsOccurrence(segment) /\ NameOf(segment) # <<>>

\* The text is made of whole occurrences and of text between them.
WholeOccurrences ==
  \A i \in 1..Len(Segments) :
    IsOccurrence(Segments[i]) \/ IsFiller(Segments[i])

\* The call an occurrence stands for.
CallOf(segment) ==
  [name |-> NameOf(segment),
   args |-> ParseArgs(FieldMatch(segment, "<args>", "</args>"))]

RECURSIVE CallsOf(_)
\* The calls of the well-formed occurrences of a list of segments, in order.
CallsOf(segments) ==
  IF segments = <<>> THEN <<>>
  ELSE (IF IsWellFormed(Head(segments)) THEN <<CallOf(Head(segments))>>
        ELSE <<>>) \o CallsOf(Tail(segments))

\* C22: for a text of k >= 0 well-formed call occurrences and text between
\* them, parseXMLToolCalls returns exactly k calls in document order, the
\* i-th with the trimmed name and the parsed arguments of the i-th
\* occurrence; with k = 0 it returns the empty list.
C22_DecodesEveryOccurrence ==
  (/\ pc = "done"
   /\ \A i \in 1..Len(Segments) :
        IsWellFormed(Segments[i]) \/ IsFiller(Segments[i]))
    => /\ toolCalls = CallsOf(Segments)
       /\ Len(toolCalls)
            = Cardinality({i \in 1..Len(Segments) :
                             IsOccurrence(Segments[i])})

\* Three occurrences were decoded to three calls: the padded name trimmed,
\* the arguments parsed, the first call first.
C22_Witness ==
  /\ pc = "done"
  /\ Len(toolCalls) = 3
  /\ toolCalls[1].name = <<"doesNotExist">>
  /\ toolCalls[2] = [name |-> <<"localSearch">>,
                     args |-> [type |-> "object", text |-> <<"{q}">>]]
  /\ toolCalls[3].name = <<"webSearch">>

\* The arguments field of an occurrence, trimmed.
ArgsTextOf(segment) == Trim(FieldMatch(segment, "<args>", "</args>").group)

\* The occurrence has a name and arguments that are not valid JSON.
HasInvalidArgs(segment) ==
  /\ IsWellFormed(segment)
  /\ ArgsTextOf(segment) # <<>>
  /\ JsonType(ArgsTextOf(segment)) = "invalid"

\* The list without its i-th element.
RemoveAt(list, i) == SubSeq(list, 1, i - 1) \o SubSeq(list, i + 1, Len(list))

\* How many of the first i segments are well-formed occurrences.
WellFormedUpTo(i) ==
  Cardinality({j \in 1..i : IsWellFormed(Segments[j])})

\* C23: an occurrence whose arguments are not valid structured data is
\* decoded, with args = {raw: the trimmed arguments text}, and the other
\* occurrences of the text are decoded as they are in the text without it.
C23_InvalidArgsKeptRaw ==
  (pc = "done" /\ WholeOccurrences)
    => \A i \in 1..Len(Segments) :
         HasInvalidArgs(Segments[i])
           => /\ toolCalls[WellFormedUpTo(i)]
                   = [name |-> NameOf(Segments[i]),
                      args |-> [type |-> "raw",
                                text |-> ArgsTextOf(Segments[i])]]
              /\ RemoveAt(toolCalls, WellFormedUpTo(i))
                   = parseXMLToolCalls(Flatten(RemoveAt(Segments, i)))

\* A call with arguments that do not parse stood between two other calls:
\* three calls were decoded, the second with the raw text.
C23_Witness ==
  /\ pc = "done"
  /\ Len(toolCalls) = 3
  /\ HasInvalidArgs(Segments[2])
  /\ toolCalls[2].args = [type |-> "raw", text |-> <<"{bad">>]
  /\ toolCalls[1].args.type = "object"
  /\ toolCalls[3].args.type = "emptyObject"

\* The occurrence has no name field, an empty one or one of whitespace.
IsNameless(segment) == IsOccurrence(segment) /\ NameOf(segment) = <<>>

\* C24: every call parseXMLToolCalls returns has a name that is trimmed and
\* not empty; an occurrence with a missing, empty or whitespace-only name
\* is dropped and only it: the calls are those of the text without it, in
\* order; a text that is only such an occurrence decodes to the empty list.
C24_NamelessDropped ==
  pc = "done"
    => /\ \A k \in 1..Len(toolCalls) :
            toolCalls[k].name # <<>>
              /\ Trim(toolCalls[k].name) = toolCalls[k].name
       /\ WholeOccurrences
            => \A i \in 1..Len(Segments) :
                 IsNameless(Segments[i])
                   => /\ toolCalls
                           = parseXMLToolCalls(Flatten(RemoveAt(Segments, i)))
                      /\ Len(Segments) = 1 => toolCalls = <<>>

\* An occurrence without a name field stood before two well-formed ones:
\* the two calls behind it were decoded.
C24_Witness ==
  /\ pc = "done"
  /\ Len(Segments) = 3
  /\ IsNameless(Segments[1])
  /\ FieldMatch(Segments[1], "<name>", "</name>").found = FALSE
  /\ Len(toolCalls) = 2
  /\ toolCalls[1].name = <<"localSearch">>

\* C25: stripToolCallXML is idempotent, with and without
\* preserveToolIndicators: stripping a stripped text gives that text.
C25_StripIdempotent ==
  pc = "done"
    => /\ stripToolCallXML(fullAIResponse) = fullAIResponse
       /\ xmlParsing_stripToolCallXML(fullAIResponse, FALSE) = fullAIResponse
       /\ xmlParsing_stripToolCallXML(currentAiMessage, TRUE)
            = currentAiMessage

\* C26: decode and strip agree on what a call occurrence is: the stripped
\* text holds nothing parseXMLToolCalls would decode.
C26_StrippedTextHoldsNoCall ==
  pc = "done" => parseXMLToolCalls(fullAIResponse) = <<>>

\* The text between the occurrences: the segments that are no occurrence.
TextBetween ==
  Flatten(SelectSeq(Segments, LAMBDA segment : ~IsOccurrence(segment)))

\* String.replace(/\n\s*\n\s*\n/g, "\n\n").trim()
NormalizeWhitespace(text) == Trim(CollapseBlankLines(text, 1))

\* C27 as stated: stripToolCallXML without indicators removes the call
\* occurrences and nothing else: for a text of whole occurrences and text
\* between them the result is the text between them, whitespace normalized
\* (with no occurrence: the input, whitespace normalized).
C27_StripRemovesOnlyOccurrences ==
  (pc = "done" /\ WholeOccurrences)
    => fullAIResponse = NormalizeWhitespace(TextBetween)

\* C27, amended: besides the occurrences the empty code fences and the
\* tool_code fences with their content are removed: the result is the text
\* between the occurrences with those fences deleted, whitespace
\* normalized, and it is the text between the occurrences, whitespace
\* normalized, when the text holds no code fence.
C27_StripRemovesOccurrencesAndFences ==
  (pc = "done" /\ WholeOccurrences)
    => /\ fullAIResponse = CleanUp(TextBetween)
       /\ ~Contains(response, Fence)
            => fullAIResponse = NormalizeWhitespace(TextBetween)
       /\ \A i \in 1..Len(fullAIResponse) :
            /\ EmptyFenceEnd(fullAIResponse, i) = 0
            /\ ToolCodeFenceEnd(fullAIResponse, i) = 0

\* A text with an occurrence between two lines of text was stripped to the
\* two lines and one blank line, and a text made of a line, an occurrence
\* and a tool_code fence is possible as well.
C27_Witness ==
  /\ pc = "done"
  /\ Segments = <<<<"a", "\n">>, CallMarkup("localSearch", "{q}"),
                  <<"\n", "b">>>>
  /\ fullAIResponse = <<"a", "\n", "\n", "b">>

\* The text with every occurrence that has a name replaced by the marker
\* of its own name, and every occurrence without one by the text given.
OwnIndicators(nameless) ==
  Flatten([i \in 1..Len(Segments) |->
             IF IsWellFormed(Segments[i])
             THEN ToolIndicator(
                    xmlParsing_getToolDisplayName(NameOf(Segments[i])))
             ELSE IF IsOccurrence(Segments[i]) THEN nameless
             ELSE Segments[i]])

\* C28: with preserveToolIndicators every occurrence is replaced in place
\* by the marker that names its own tool (the display name if there is
\* one, the tool name otherwise), also in a text where some occurrences
\* have no name: those are deleted, or replaced by a marker without a name.
C28_IndicatorNamesOwnTool ==
  (pc = "done" /\ WholeOccurrences)
    => currentAiMessage \in {CleanUp(OwnIndicators(<<>>)),
                             CleanUp(OwnIndicators(ToolIndicator(<<>>)))}

\* The variant the identifier stands for: the first of gpt, claude, gemini
\* and copilot-plus it holds, the default when it holds none of them.
VariantOf(identifier) ==
  LET found == {k \in 1..4 :
                  Includes(identifier, <<(<<"gpt", "claude", "gemini",
                                            "copilot-plus">>)[k]>>)}
      first == IF found = {} THEN 0
               ELSE CHOOSE k \in found : \A j \in found : k <= j
  IN  (<<"BaseModelAdapter", "GPTModelAdapter", "ClaudeModelAdapter",
         "GeminiModelAdapter", "BaseModelAdapter">>)[first + 1]

\* C29: the classification is a total function of the lower-cased
\* identifier: every chat model, also one without an identifier, gets one
\* adapter, its variant fixed by the first of gpt, claude, gemini and
\* copilot-plus the lower-cased identifier holds; an identifier that holds
\* none gets the default variant, whose needsSpecialHandling is false and
\* whose enhanceUserMessage returns the message it is given.
C29_ClassificationTotal ==
  /\ pc = "idle" => \A model \in ChatModels : ENABLED AdapterCreated(model)
  /\ pc \in {"adapter", "done"}
       => /\ adapter.modelName = ToLowerCase(adapter.modelName)
          /\ adapter.class = VariantOf(adapter.modelName)
          /\ adapter.class = "BaseModelAdapter"
               => /\ ~needsSpecialHandling(adapter)
                  /\ \A message \in AdapterMessages, requires \in BOOLEAN :
                       enhanceUserMessage(adapter, message, requires)
                         = message
                  /\ pc = "done"
                       => conversationMessages[1].content \in AdapterMessages

\* The identifier "llama", which holds none of the four, got the default
\* variant, and that adapter returned a message with a search word as it was.
C29_Witness ==
  /\ pc = "done"
  /\ adapter.class = "BaseModelAdapter"
  /\ adapter.modelName = <<"llama">>
  /\ conversationMessages[1].content = <<"Find", " ", "a">>

\* The tokens that only the result string of a tool call holds: those of the
\* three error results of the guard, of the placeholder, of the stringified
\* values and of the values the tools return.
ResultTokens ==
  {"Error: ", "Error: Invalid tool call - missing tool name",
   "Error: Tool '", "' not found. Available tools: ",
   "Tool executed but returned no result",
   "TypeError: value is not serializable", "tool failed",
   "<undefined>", "[", "]", "{", "}", "docA5", "docB7", "web-result"}
    \cup {TimeoutMessage[k] : k \in 1..Len(TimeoutMessage)}
    \cup {ValueToken(id) : id \in 1..12}

HoldsResultToken(text) == \E k \in 1..Len(text) : text[k] \in ResultTokens

\* The texts the user gets to see: the history, the text published last,
\* the answer, the value returned and the messages added to the chat.
UserFacingTexts ==
  {iterationHistory[i] : i \in 1..Len(iterationHistory)}
    \cup {currentAiMessage, fullAIResponse, returned}
    \cup {addedMessages[i].message : i \in 1..Len(addedMessages)}

\* C30: the result string of a tool call, of a success as of a failure
\* (tool not found, thrown error, timeout), reaches the transcript and
\* nothing the user sees: not the iteration history, not a published text,
\* not the answer; the history grows by a markup-stripped response or by the
\* progress markers of an iteration, and the results are appended to the
\* transcript at the end of the iteration.
C30_ResultsModelFacingOnly ==
  /\ [](/\ \A i \in 1..Len(toolResults) :
             HoldsResultToken(toolResults[i].result)
        /\ \A text \in UserFacingTexts : ~HoldsResultToken(text))
  /\ [][/\ iterationHistory' # iterationHistory
          => \E segment \in {stripToolCallXML(response),
                             Join(toolCallMessages, <<"\n">>)} :
               iterationHistory' = Append(iterationHistory, segment)
        /\ (pc = "iterationEnd" /\ pc' = "loopHead")
          => conversationMessages'[Len(conversationMessages')].content
               = ToolResultsForConversation(toolResults)]_vars

\* A run ended with an answer after a call of a tool that is not in the
\* registry and a call that returned a value: both results are in the
\* transcript.
C30_Witness ==
  /\ pc = "done"
  /\ returned # <<>>
  /\ \E i \in 1..Len(conversationMessages) :
       /\ conversationMessages[i].role = "user"
       /\ Contains(conversationMessages[i].content,
                   "' not found. Available tools: ")
       /\ \E id \in 1..12 :
            Contains(conversationMessages[i].content, ValueToken(id))

IsPrefix(prefix, text) ==
  Len(prefix) <= Len(text) /\ SubSeq(text, 1, Len(prefix)) = prefix

\* C32: the streamer publishes after every chunk.  Every call of
\* processChunk publishes at least once; every value published is the
\* buffer as it was then, so that it begins the buffer of any later time;
\* and when processChunk or close has returned, the value published last
\* is the buffer (nothing is published only while the buffer is empty),
\* which is what close returns.
C32_ViewNeverBehind ==
  /\ [](/\ \A i \in 1..Len(streamer.published) :
             IsPrefix(streamer.published[i], streamer.fullResponse)
        /\ IF streamer.published = <<>>
           THEN streamer.fullResponse = <<>> /\ processedChunks = <<>>
           ELSE streamer.published[Len(streamer.published)]
                  = streamer.fullResponse
        /\ (pc = "done" => response = streamer.fullResponse))
  /\ [][processedChunks' # processedChunks
          => /\ Len(streamer'.published) > Len(streamer.published)
             /\ IsPrefix(streamer.published, streamer'.published)]_vars

\* close has returned after two chunks or more, having closed a block that
\* was open, and more values were published than chunks were processed.
C32_Witness ==
  /\ pc = "done"
  /\ Len(processedChunks) >= 2
  /\ streamer.hasOpenThinkBlock
  /\ Len(streamer.published) > Len(processedChunks) + 1

\* The opening and the closing markers in the buffer of the streamer.
Openings == Count("<think>", streamer.fullResponse)

Closings == Count("</think>", streamer.fullResponse)

\* C35: before close() is called the flag agrees with the buffer: the
\* buffer holds one opening marker more than closing markers if the flag
\* hasOpenThinkBlock is set, and as many if it is not; and a step puts in
\* an opening marker, and then one only, only if it takes the flag from
\* false to true.
C35_FlagAgreesWithBuffer ==
  /\ [](pc = "idle"
          => Openings = Closings + (IF streamer.hasOpenThinkBlock
                                    THEN 1 ELSE 0))
  /\ [][Openings' # Openings
          => /\ ~streamer.hasOpenThinkBlock
             /\ streamer'.hasOpenThinkBlock
             /\ Openings' = Openings + 1]_vars

\* Before close(), a second block is open behind a first one that an
\* answer chunk closed.
C35_Witness ==
  /\ pc = "idle"
  /\ streamer.hasOpenThinkBlock
  /\ Openings = 2
  /\ Closings = 1

\* What a closing of an open block adds to the buffer.
ClosingIfOpen == IF streamer.hasOpenThinkBlock THEN <<"</think>">> ELSE <<>>

\* C36: close() does not reset the flag.  A close() leaves the flag as it
\* was, so that behind a close() that closed an open block a second close()
\* appends one more closing marker, and so does a processChunk with a chunk
\* that carries no reasoning; a second close() leaves the buffer as the
\* first one returned it exactly if no block was open.
C36_CloseKeepsFlag ==
  [][/\ (pc \in {"idle", "done"} /\ pc' \in {"done", "closedAgain"})
          => /\ streamer'.hasOpenThinkBlock = streamer.hasOpenThinkBlock
             /\ streamer'.fullResponse
                  = streamer.fullResponse \o ClosingIfOpen
     /\ (pc = "done" /\ pc' = "closedAgain")
          => (streamer'.fullResponse = response
                <=> ~streamer.hasOpenThinkBlock)
     /\ (pc = "done" /\ pc' = "reused" /\ ~CarriesReasoning(LastProcessed'))
          => /\ Closings' = Closings + Len(ClosingIfOpen)
             /\ ~streamer'.hasOpenThinkBlock]_vars

\* A second close() has appended a closing marker to a text whose one
\* block the first close() had closed.
C36_Witness ==
  /\ pc = "closedAgain"
  /\ streamer.hasOpenThinkBlock
  /\ Count("<think>", response) = 1
  /\ Count("</think>", response) = 1
  /\ Closings = 2

\* The join of the segments of the history, as a display begins with it.
JoinedHistory == Join(iterationHistory, BlankLine)

\* C33: while run iterates, every text it publishes begins with the
\* segments finalized so far, joined by blank lines.  A text published
\* while the model streams is that history joined with the response so
\* far, stripped of call markup; a text published when a call starts is
\* the history joined with the progress markers of the calls started so
\* far in this iteration; and a segment, once in the history, stays in it
\* unchanged.
C33_DisplayKeepsHistory ==
  [][/\ (/\ pc = "awaitStream" /\ pc' \in {"awaitStream", "afterStream"}
         /\ currentAiMessage' # currentAiMessage)
          => /\ IsPrefix(JoinedHistory, currentAiMessage')
             /\ currentAiMessage'
                  = Join(Append(iterationHistory,
                                stripToolCallXML(streamer'.fullResponse)),
                         BlankLine)
     /\ (pc = "toolLoop" /\ pc' = "guardEntry")
          => /\ IsPrefix(JoinedHistory, currentAiMessage')
             /\ Len(toolCallMessages') = callIndex
             /\ \A i \in 1..callIndex :
                  toolCallMessages'[i] = ToolCallingMessage(toolCalls[i].name)
             /\ currentAiMessage'
                  = Join(iterationHistory \o toolCallMessages', BlankLine)
     /\ IsPrefix(iterationHistory, iterationHistory')]_vars

\* In the second iteration the response in progress is shown behind the
\* two segments of the first iteration.
C33_Witness ==
  /\ pc = "awaitStream"
  /\ iteration = 2
  /\ Len(iterationHistory) = 2
  /\ processedChunks # <<>>
  /\ IsPrefix(JoinedHistory \o BlankLine, currentAiMessage)
  /\ Len(currentAiMessage) > Len(JoinedHistory) + 2

\* An adapter of the default variant.
DefaultAdapter == [class |-> "BaseModelAdapter", modelName |-> <<>>]

\* The adapter puts text of its own behind the prompt of the default
\* variant, whatever the inputs.
AppendsReinforcement ==
  \A basePrompt \in BasePrompts, toolDescriptions \in ToolDescriptions :
    enhanceSystemPrompt(adapter, basePrompt, toolDescriptions)
      # enhanceSystemPrompt(DefaultAdapter, basePrompt, toolDescriptions)

AnswersAdded ==
  {i \in 1..Len(addedMessages) : ~addedMessages[i].isErrorMessage}

\* C37: per run the final response is persisted at most once.  An answer
\* is added to the chat at most once, it is not empty, it is not added while
\* the signal is set with the reason of a new chat, and once the fallback
\* runner was started handleResponse of the agentic runner is not run.
C37_PersistedAtMostOnce ==
  [][/\ AnswersAdded' # AnswersAdded
          => /\ AnswersAdded = {}
             /\ Cardinality(AnswersAdded') = 1
             /\ addedMessages'[Len(addedMessages')].message # <<>>
             /\ ~(aborted' /\ abortReason' = "new-chat")
     /\ fallbackRuns > 0 => handleResponseCalls' = handleResponseCalls]_vars

\* The loop was left because the stream of the last iteration returned the
\* empty text, and run has returned.
ReturnedBehindEmptyResponse ==
  /\ pc = "done"
  /\ iteration >= 1
  /\ response = <<>>
  /\ error = "none"

\* C38: an empty response ends the loop at once, without a call, a
\* transcript message or a further request.  If it came before iteration
\* maxIterations, run returns the empty text and no message is added,
\* whatever history and sources the earlier iterations left; if it came in
\* iteration maxIterations, run returns the joined history.
C38_EmptyResponseDropsHistory ==
  /\ [][(pc = "afterStream" /\ response = <<>>)
          => /\ pc' = "afterLoop"
             /\ fullAIResponse' = <<>>
             /\ UNCHANGED <<conversationMessages, iterationHistory,
                            collectedSources, streamRequests,
                            invocations>>]_vars
  /\ [](ReturnedBehindEmptyResponse
          => IF iteration < maxIterations
             THEN returned = <<>> /\ addedMessages = <<>>
             ELSE returned = JoinedHistory)

\* Run returned the empty text behind an empty response in iteration 2 or
\* 3, though the history and the sources of the iterations before hold
\* entries.
C38_Witness ==
  /\ ReturnedBehindEmptyResponse
  /\ iteration \in 2..(maxIterations - 1)
  /\ iterationHistory # <<>>
  /\ collectedSources # <<>>
  /\ returned = <<>>

\* Run returned the joined history behind an empty response in the last
\* iteration.
C38_WitnessLastIteration ==
  /\ ReturnedBehindEmptyResponse
  /\ iteration = maxIterations
  /\ returned = JoinedHistory
  /\ returned # <<>>

\* Run is in or behind the last iteration that is permitted.
LastIteration == iteration = maxIterations

====
